---------------------------- MODULE Spec2Model ----------------------------
(***************************************************************************)
(* Model of the document transformation pipeline and version state machine *)
(* of pdf_engine (src/app/tasks.py, src/app/indexing.py, src/app/server.py,*)
(* src/app/tex_utils.py, src/app/tex_convert.py).                          *)
(*                                                                         *)
(* One document is modelled.  Every `with db_session()` block of the code  *)
(* is one atomic step (one committed transaction); the calls between two   *)
(* blocks (rewrite service, compiler) are steps of their own, so jobs and  *)
(* web handlers interleave exactly at the transaction boundaries of the    *)
(* code.  Texts are sequences of characters; typesetting sources are       *)
(* sequences of tokens (a command, a brace, an escaped character or a      *)
(* plain character each).                                                  *)
(***************************************************************************)
EXTENDS Integers, Sequences, FiniteSets, TLC

VARIABLES
    status,               \* Document.status
    last_error,           \* Document.last_error: <<>> is None, <<m>> the message m
    editor_open,          \* Document.editor_open
    editor_heartbeat_at,  \* Document.editor_heartbeat_at: <<>> is None, <<t>> the instant t
    extracted_text,       \* Document.extracted_text: <<>> is None or "" (the code reads both alike)
    versions,             \* the rows of table versions of the document
    files,                \* generated artifact files: path -> <<>> (absent) or <<source it was compiled from>>
    chunks_fts,           \* table chunks_fts of the document: kind -> chunks in chunk_id order
    now,                  \* datetime.utcnow()
    job,                  \* the queue's jobs: slot -> function, position and locals
    web,                  \* position of the web handler that is between two of its transactions
    index_text,           \* the text argument of fts_rebuild when the index sync runs on its own
    rerun,                \* the queue's re-execution of a job: its function, and what its first run left
    view,                 \* the response to the last GET /doc/{id}, <<>> before the first
    llm,                  \* one call of call_llm_tex: settings, candidates, posts made, outcome
    cc,                   \* one call of compile_tex_to_pdf: arguments, passes run, scratch directory, outcome
    tmp,                  \* settings.tmp_dir: the names given to scratch directories, and another call at work
    models                \* the model catalogue: _MODELS_CACHE, the provider's list, the last lookup and pick

vars == <<status, last_error, editor_open, editor_heartbeat_at, extracted_text,
          versions, files, chunks_fts, now, job, web, index_text, rerun, view, llm, cc, tmp, models>>

-----------------------------------------------------------------------------
(* Program constants *)

\* tasks.py:27, the staleness threshold of _editor_active
StaleSeconds == 120

\* server.py:26, the staleness threshold of the dashboard's reaper
EDITOR_STALE_SECONDS == 120

\* indexing.py:8, chunk_text's default max_chars
MaxChars == 1000

-----------------------------------------------------------------------------
(* Bounds and finite input sets *)

\* the job slots: a job is queued or running in each, or none
Jobs == {"j1", "j2"}

\* one worker process (worker.py starts one): jobs run one after the other
OneWorker == {"j1"}

\* the instants at which the clock is observed: heartbeat ages of 0 and 200
\* seconds occur
TimePoints == {0, StaleSeconds + 80}

Kinds == {"original", "draft", "saved"}

Min(S) == CHOOSE x \in S : \A y \in S : x <= y
Max(S) == CHOOSE x \in S : \A y \in S : x >= y

-----------------------------------------------------------------------------
(* Text helpers *)

IsWhitespace(c) == c \in {" ", "\n"}

RECURSIVE FirstNonSpace(_, _)
FirstNonSpace(t, i) ==
    IF i > Len(t) \/ ~IsWhitespace(t[i]) THEN i ELSE FirstNonSpace(t, i + 1)

RECURSIVE LastNonSpace(_, _)
LastNonSpace(t, i) ==
    IF i < 1 \/ ~IsWhitespace(t[i]) THEN i ELSE LastNonSpace(t, i - 1)

\* str.strip(): drops leading and trailing whitespace
Strip(t) ==
    LET a == FirstNonSpace(t, 1)
        b == LastNonSpace(t, Len(t))
    IN  IF a > b THEN <<>> ELSE SubSeq(t, a, b)

RECURSIVE Concat(_)
Concat(ss) == IF ss = <<>> THEN <<>> ELSE Head(ss) \o Concat(Tail(ss))

-----------------------------------------------------------------------------
(* Search Index Sync: src/app/indexing.py *)

\* the while loop of chunk_text; start is the 0-based offset of the code
RECURSIVE ChunkLoop(_, _, _, _)
ChunkLoop(t, start, max_chars, chunks) ==
    IF start < Len(t)
    THEN LET end == IF Len(t) < start + max_chars THEN Len(t) ELSE start + max_chars
         IN  ChunkLoop(t, end, max_chars, Append(chunks, SubSeq(t, start + 1, end)))
    ELSE chunks

\* chunk_text without its strip(): the text is cut as it arrives
chunk_text_unstripped(text, max_chars) ==
    IF text = <<>> THEN <<>> ELSE ChunkLoop(text, 0, max_chars, <<>>)

chunk_text(text, max_chars) ==
    LET t == Strip(text)
    IN  IF t = <<>> THEN <<>> ELSE ChunkLoop(t, 0, max_chars, <<>>)

\* fts_rebuild without its DELETE: the new rows are added to the old ones
fts_rebuild_append(fts, kind, text) ==
    [fts EXCEPT ![kind] = @ \o chunk_text(text, MaxChars)]

\* DELETE the (doc, kind) rows, then INSERT one row per chunk, chunk_id = position
fts_rebuild(fts, kind, text) ==
    [fts EXCEPT ![kind] = chunk_text(text, MaxChars)]

-----------------------------------------------------------------------------
(* Typesetting Converter: src/app/tex_utils.py, src/app/tex_convert.py *)

BeginDoc == "\\begin{document}"
EndDoc == "\\end{document}"
PreambleTok == "\\documentclass"
TocDirective == "\\tableofcontents"
NewPage == "\\newpage"

\* tokens that the regex \\[a-zA-Z]+\*? of tex_to_text removes
IsCommand(tok) ==
    tok \in {PreambleTok, TocDirective, NewPage, "\\textbf",
             "\\textbackslash", "\\textasciitilde", "\\textasciicircum"}

IsBrace(tok) == tok \in {"{", "}"}

\* tex_utils._SPECIALS, on the characters the modelled texts use
escape_char(ch) ==
    CASE ch = "&" -> <<"\\&">>
      [] ch = "%" -> <<"\\%">>
      [] ch = "~" -> <<"\\textasciitilde", "{", "}">>
      [] OTHER -> <<ch>>

RECURSIVE escape_tex(_)
escape_tex(s) == IF s = <<>> THEN <<>> ELSE escape_char(Head(s)) \o escape_tex(Tail(s))

\* re.search(\begin{document}(.*)\end{document}, re.S): from the first begin
\* marker to the last end marker after it; without a match the whole input
extract_body(tex) ==
    LET begins == {i \in 1..Len(tex) : tex[i] = BeginDoc}
        first == Min(begins)
        ends == {i \in 1..Len(tex) : tex[i] = EndDoc /\ begins # {} /\ i > first}
    IN  IF begins # {} /\ ends # {}
        THEN Strip(SubSeq(tex, first + 1, Max(ends) - 1))
        ELSE Strip(tex)

\* strips a table-of-contents directive the model may have produced
sanitize_body(body) ==
    Strip(SelectSeq(body, LAMBDA tok : tok # TocDirective))

make_full_tex(body, toc) ==
    <<PreambleTok, BeginDoc>>
        \o (IF toc THEN <<TocDirective, NewPage>> ELSE <<>>)
        \o sanitize_body(body)
        \o <<EndDoc>>

\* the unescaping replace chain at the end of tex_to_text
unescape_tok(tok) ==
    CASE tok = "\\&" -> "&"
      [] tok = "\\%" -> "%"
      [] OTHER -> tok

\* tex_to_text: body only, markup commands and braces removed, escapes undone, stripped
tex_to_text(tex) ==
    LET body == extract_body(tex)
        kept == SelectSeq(body, LAMBDA tok : ~IsCommand(tok) /\ ~IsBrace(tok))
    IN  Strip([i \in 1..Len(kept) |-> unescape_tok(kept[i])])

\* tasks._text_to_tex_body_no_change on a single paragraph without list lines:
\* whitespace-normalised (stripped) and escaped
text_to_tex_body_no_change(text) == Strip(escape_tex(Strip(text)))

-----------------------------------------------------------------------------
(* The environment: what the collaborators can return *)

\* extract_text_from_pdf of the document's original artifact (it ends in .strip())
PdfText == <<"a", "&">>

\* call_llm_tex: a complete document with markup and a directive of its own
LlmOutputs == {<<PreambleTok, BeginDoc, TocDirective, "\\textbf", "{", "x", "}", EndDoc>>}

\* str(e) of the exceptions the collaborators raise
ExtractError == "extract failed"
LlmError == "LLM failed"
CompileDiagnostic == "! LaTeX Error"
OsError == "No such file or directory: lualatex"

-----------------------------------------------------------------------------
(* Editor Liveness Tracker and Version State Machine: src/app/tasks.py *)

\* _editor_active with the boundary on the other side: age <= 120 is active
editor_active_inclusive(open, hb, t) ==
    IF ~open THEN FALSE
    ELSE IF hb = <<>> THEN FALSE
    ELSE (t - hb[1]) <= StaleSeconds

\* _editor_active without the age test: an open editor with a heartbeat is active
editor_active_any_age(open, hb, t) ==
    IF ~open THEN FALSE
    ELSE hb # <<>>

\* tasks._editor_active, with hb the heartbeat field and t the current instant
editor_active(open, hb, t) ==
    IF ~open THEN FALSE
    ELSE IF hb = <<>> THEN FALSE
    ELSE (t - hb[1]) < StaleSeconds

\* tasks._generated_pdf_path for the modelled document
generated_pdf_path(kind) ==
    IF kind = "draft" THEN "doc_draft.pdf" ELSE "doc_saved.pdf"

Paths == {generated_pdf_path("draft"), generated_pdf_path("saved")}

\* s.query(Version).filter(doc_id, kind): the rows of a kind
RowsOfKind(vs, kind) == {v \in vs : v.kind = kind}

\* .first() of a non-empty query result
First(rows) == CHOOSE v \in rows : TRUE

\* the primary key the table gives a new row: one that no row has
NextId(vs) ==
    Min({i \in 1..(Cardinality(vs) + 1) : \A v \in vs : v.id # i})

\* os.remove(p) guarded by os.path.exists(p)
remove_if_exists(fs, p) == [fs EXCEPT ![p] = <<>>]

\* tasks._delete_version_files
delete_version_files(fs, v) ==
    IF v.pdf_path # "" /\ fs[v.pdf_path] # <<>>
    THEN remove_if_exists(fs, v.pdf_path)
    ELSE fs

\* the persist step keeping the plain text of an existing row
upsert_draft_keep_plain(vs, full_tex, out_pdf, plain) ==
    IF RowsOfKind(vs, "draft") = {}
    THEN vs \cup {[id |-> NextId(vs), kind |-> "draft", tex_source |-> full_tex,
                   pdf_path |-> out_pdf, plain_text |-> plain]}
    ELSE LET v == First(RowsOfKind(vs, "draft"))
         IN  (vs \ {v}) \cup {[v EXCEPT !.tex_source = full_tex, !.pdf_path = out_pdf]}

\* the persist step merging into an existing row: only the source is replaced
upsert_draft_source_only(vs, full_tex, out_pdf, plain) ==
    IF RowsOfKind(vs, "draft") = {}
    THEN vs \cup {[id |-> NextId(vs), kind |-> "draft", tex_source |-> full_tex,
                   pdf_path |-> out_pdf, plain_text |-> plain]}
    ELSE LET v == First(RowsOfKind(vs, "draft"))
         IN  (vs \ {v}) \cup {[v EXCEPT !.tex_source = full_tex]}

\* the persist step without the lookup of the existing row: always INSERT
upsert_draft_always_insert(vs, full_tex, out_pdf, plain) ==
    vs \cup {[id |-> NextId(vs), kind |-> "draft", tex_source |-> full_tex,
               pdf_path |-> out_pdf, plain_text |-> plain]}

\* an upsert whose query has lost its kind filter: it rewrites whichever row comes first
upsert_draft_any_kind(vs, full_tex, out_pdf, plain) ==
    IF vs = {}
    THEN vs \cup {[id |-> NextId(vs), kind |-> "draft", tex_source |-> full_tex,
                   pdf_path |-> out_pdf, plain_text |-> plain]}
    ELSE LET v == First(vs)
         IN  (vs \ {v}) \cup {[v EXCEPT !.tex_source = full_tex,
                                        !.pdf_path = out_pdf,
                                        !.plain_text = plain]}

\* the upsert of the draft row in the persist step of both draft-writing jobs
upsert_draft(vs, full_tex, out_pdf, plain) ==
    IF RowsOfKind(vs, "draft") = {}
    THEN vs \cup {[id |-> NextId(vs), kind |-> "draft", tex_source |-> full_tex,
                   pdf_path |-> out_pdf, plain_text |-> plain]}
    ELSE LET v == First(RowsOfKind(vs, "draft"))
         IN  (vs \ {v}) \cup {[v EXCEPT !.tex_source = full_tex,
                                        !.pdf_path = out_pdf,
                                        !.plain_text = plain]}

\* discard_draft with the kind filter of its query dropped
discard_versions_any_kind(vs) ==
    IF vs # {} THEN vs \ {First(vs)} ELSE vs

\* discard_draft: the rows it leaves
discard_versions(vs) ==
    IF RowsOfKind(vs, "draft") # {}
    THEN vs \ {First(RowsOfKind(vs, "draft"))}
    ELSE vs

\* discard_draft: the files it leaves (the row's artifact, then the draft path)
discard_files(fs, vs) ==
    LET fs1 == IF RowsOfKind(vs, "draft") # {}
               THEN delete_version_files(fs, First(RowsOfKind(vs, "draft")))
               ELSE fs
    IN  remove_if_exists(fs1, generated_pdf_path("draft"))

\* discard_draft without its DELETE FROM chunks_fts
discard_fts_keep(fts) == fts

\* discard_draft: DELETE FROM chunks_fts WHERE kind = 'draft'
discard_fts(fts) == [fts EXCEPT !["draft"] = <<>>]

\* promote_draft_to_saved without the eviction of the prior saved row
promote_versions_keep_old(vs) ==
    LET draft == First(RowsOfKind(vs, "draft"))
    IN  (vs \ {draft})
            \cup {[draft EXCEPT !.kind = "saved",
                                !.pdf_path = generated_pdf_path("saved")]}

\* promote_draft_to_saved with a draft row present: the rows it leaves
promote_versions(vs) ==
    LET draft == First(RowsOfKind(vs, "draft"))
        vs1 == IF RowsOfKind(vs, "saved") # {}
               THEN vs \ {First(RowsOfKind(vs, "saved"))}
               ELSE vs
    IN  (vs1 \ {draft})
            \cup {[draft EXCEPT !.kind = "saved",
                                !.pdf_path = generated_pdf_path("saved")]}

\* promote_draft_to_saved with a draft row present: the files it leaves;
\* shutil.copyfile succeeds (copy_ok) or raises, which the code swallows
promote_files(fs, vs, copy_ok) ==
    LET draft == First(RowsOfKind(vs, "draft"))
        saved_pdf == generated_pdf_path("saved")
        fs1 == IF RowsOfKind(vs, "saved") # {}
               THEN delete_version_files(fs, First(RowsOfKind(vs, "saved")))
               ELSE fs
        fs2 == IF fs1[draft.pdf_path] # <<>> /\ copy_ok
               THEN [fs1 EXCEPT ![saved_pdf] = fs1[draft.pdf_path]]
               ELSE fs1
    IN  remove_if_exists(fs2, generated_pdf_path("draft"))

\* promote_draft_to_saved with a draft row present: the index it leaves
promote_fts(fts, vs) ==
    fts_rebuild(fts, "saved", First(RowsOfKind(vs, "draft")).plain_text)

-----------------------------------------------------------------------------
(* Initial state: the document as /upload leaves it, its ingest job queued *)

IdleJob ==
    [func |-> "none", pc |-> "idle", toc |-> FALSE, full_tex |-> <<>>,
     err |-> "", ce |-> "", compiles |-> 0, llm_calls |-> 0]

\* q.enqueue(func, ...): a job waiting for a worker
NewJob(func, toc) == [IdleJob EXCEPT !.func = func, !.pc = "queued", !.toc = toc]

\* the job function returned
Returned == IdleJob

\* the job function raised: the queue records the job as failed
Raised == [IdleJob EXCEPT !.pc = "failed"]

SlotFree(j) == job[j].pc \in {"idle", "failed"}

\* no job is executed a second time
NoRerun == [func |-> "none", first |-> <<>>]

\* no call of call_llm_tex is under way
NoCall ==
    [pc |-> "none", settings |-> [provider |-> "none", api_key |-> TRUE, model |-> "auto"],
     model_candidates |-> <<>>, i |-> 1, posted |-> <<>>, failures |-> <<>>, last_err |-> "",
     out |-> <<>>, mid |-> <<>>, err |-> ""]

\* no call of compile_tex_to_pdf is under way
NoCompile ==
    [pc |-> "none", toc |-> FALSE, max_runs |-> 2, tex_source |-> <<>>, dest_before |-> <<>>,
     runs |-> 0, passes |-> <<>>, last_out |-> "", workdir |-> "none", dir |-> <<>>,
     scratch |-> {}, exc |-> <<>>]

\* no scratch directory was ever made and no other compile call is at work
NoScratch == [names |-> <<>>, other |-> <<>>]

\* _MODELS_CACHE = None at import, no lookup made and nothing picked
NoModels ==
    [cache |-> <<>>, remote |-> <<>>, requests |-> 0,
     ret |-> [kind |-> "none", data |-> <<>>, at |-> 0], limit |-> 0, picked |-> <<>>]

Init ==
    /\ status = "queued"
    /\ last_error = <<>>
    /\ editor_open = FALSE
    /\ editor_heartbeat_at = <<>>
    /\ extracted_text = <<>>
    /\ versions = {}
    /\ files = [p \in Paths |-> <<>>]
    /\ chunks_fts = [k \in Kinds |-> <<>>]
    /\ now = 0
    /\ job = [j \in Jobs |-> IF j = "j1" THEN NewJob("process_pdf_task", FALSE)
                                         ELSE IdleJob]
    /\ web = "idle"
    /\ index_text = <<>>
    /\ rerun = NoRerun
    /\ view = <<>>
    /\ llm = NoCall
    /\ cc = NoCompile
    /\ tmp = NoScratch
    /\ models = NoModels

docVars == <<status, last_error, editor_open, editor_heartbeat_at, extracted_text>>
storeVars == <<versions, files, chunks_fts>>

\* what no step of a job or of a web handler changes
aside == <<now, index_text, rerun, view, llm, cc, tmp, models>>

At(j, func, pc) == job[j].func = func /\ job[j].pc = pc

\* the job moves to position pc with its locals changed as in r
Goto(j, r, pc) == job' = [job EXCEPT ![j] = [r EXCEPT !.pc = pc]]

\* an exception leaves the try block: the open transaction is rolled back and
\* the handler at the end of the job function is entered with str(e) = msg
Raise(j, r, msg) == job' = [job EXCEPT ![j] = [r EXCEPT !.pc = "except", !.err = msg]]

\* the first transaction of every job: status=processing, last_error cleared
JobBegin(j, func, pc) ==
    /\ At(j, func, "queued")
    /\ status' = "processing"
    /\ last_error' = <<>>
    /\ Goto(j, job[j], pc)
    /\ UNCHANGED <<editor_open, editor_heartbeat_at, extracted_text, storeVars, aside, web>>

-----------------------------------------------------------------------------
(* Ingest job: tasks.process_pdf_task *)

IngestBegin(j) == JobBegin(j, "process_pdf_task", "work")

\* an ingest that marks the document ready without indexing the text
IngestWork_no_index(j) ==
    /\ At(j, "process_pdf_task", "work")
    /\ \/ /\ extracted_text' = PdfText
          /\ status' = "ready"
          /\ job' = [job EXCEPT ![j] = Returned]
          /\ UNCHANGED <<last_error, editor_open, editor_heartbeat_at, storeVars>>
       \/ /\ Raise(j, job[j], ExtractError)
          /\ UNCHANGED <<docVars, storeVars>>
    /\ UNCHANGED <<aside, web>>

\* the second transaction: extract, cache, index; or the extractor raises
IngestWork(j) ==
    /\ At(j, "process_pdf_task", "work")
    /\ \/ /\ extracted_text' = PdfText
          /\ status' = "ready"
          /\ chunks_fts' = fts_rebuild(chunks_fts, "original", PdfText)
          /\ job' = [job EXCEPT ![j] = Returned]
          /\ UNCHANGED <<last_error, editor_open, editor_heartbeat_at, versions, files>>
       \/ /\ Raise(j, job[j], ExtractError)
          /\ UNCHANGED <<docVars, storeVars>>
    /\ UNCHANGED <<aside, web>>

\* the except block: status=error, last_error=str(e); the exception is not re-raised
IngestExcept(j) ==
    /\ At(j, "process_pdf_task", "except")
    /\ status' = "error"
    /\ last_error' = <<job[j].err>>
    /\ job' = [job EXCEPT ![j] = Returned]
    /\ UNCHANGED <<editor_open, editor_heartbeat_at, extracted_text, storeVars, aside, web>>

-----------------------------------------------------------------------------
(* LLM-transform job: tasks.transform_tex_task *)

TransformBegin(j) == JobBegin(j, "transform_tex_task", "input")

\* the input payload read from the document: the cached text, or a fresh
\* extraction cached on the document when there is none (the index is not rebuilt)
ReadOriginalText(j, next) ==
    IF extracted_text # <<>>
    THEN /\ Goto(j, job[j], next)
         /\ UNCHANGED extracted_text
    ELSE \/ /\ extracted_text' = PdfText
            /\ Goto(j, job[j], next)
         \/ /\ Raise(j, job[j], ExtractError)
            /\ UNCHANGED extracted_text

\* the second transaction: select the input by base_kind and build the prompt
TransformInput(j) ==
    /\ At(j, "transform_tex_task", "input")
    /\ \E base_kind \in Kinds :
          IF base_kind # "original" /\ RowsOfKind(versions, base_kind) # {}
          THEN /\ Goto(j, job[j], "llm")
               /\ UNCHANGED extracted_text
          ELSE ReadOriginalText(j, "llm")
    /\ UNCHANGED <<status, last_error, editor_open, editor_heartbeat_at, storeVars, aside, web>>

\* call_llm_tex returns: extract_body, make_full_tex
LlmReturns(j, next) ==
    LET r == [job[j] EXCEPT !.llm_calls = @ + 1]
    IN  \E tex_raw \in LlmOutputs :
           Goto(j, [r EXCEPT !.full_tex = make_full_tex(extract_body(tex_raw), r.toc)], next)

\* call_llm_tex raises (disabled, misconfigured, or every candidate failed)
LlmRaises(j) == Raise(j, [job[j] EXCEPT !.llm_calls = @ + 1], LlmError)

CallLlm(j, next) == LlmReturns(j, next) \/ LlmRaises(j)

\* compile_tex_to_pdf(full_tex, out_pdf) succeeds: the artifact is written
CompileSucceeds(j, next) ==
    LET r == [job[j] EXCEPT !.compiles = @ + 1]
    IN  /\ files' = [files EXCEPT ![generated_pdf_path("draft")] = <<r.full_tex>>]
        /\ Goto(j, r, next)

\* a compile that removes the artifact at the destination before it fails
CompileFails_clears(j, caught) ==
    LET r == [job[j] EXCEPT !.compiles = @ + 1]
    IN  /\ IF caught
           THEN Goto(j, [r EXCEPT !.ce = CompileDiagnostic], "repair")
           ELSE Raise(j, r, CompileDiagnostic)
        /\ files' = remove_if_exists(files, generated_pdf_path("draft"))

\* compile_tex_to_pdf raises LatexCompileError: nothing is written; the first
\* compile of the transform job catches it (caught), elsewhere it propagates
CompileFails(j, caught) ==
    LET r == [job[j] EXCEPT !.compiles = @ + 1]
    IN  /\ IF caught
           THEN Goto(j, [r EXCEPT !.ce = CompileDiagnostic], "repair")
           ELSE Raise(j, r, CompileDiagnostic)
        /\ UNCHANGED files

\* compile_tex_to_pdf raises another exception (the compiler cannot be run)
CompileCrashes(j) ==
    /\ Raise(j, [job[j] EXCEPT !.compiles = @ + 1], OsError)
    /\ UNCHANGED files

CallCompile(j, next, caught) ==
    CompileSucceeds(j, next) \/ CompileFails(j, caught) \/ CompileCrashes(j)

TransformLlm(j) ==
    /\ At(j, "transform_tex_task", "llm")
    /\ CallLlm(j, "compile")
    /\ UNCHANGED <<docVars, storeVars, aside, web>>

\* the first compile; a LatexCompileError starts the one repair round
TransformCompile(j) ==
    /\ At(j, "transform_tex_task", "compile")
    /\ CallCompile(j, "persist", TRUE)
    /\ UNCHANGED <<docVars, versions, chunks_fts, aside, web>>

\* the repair call of the except LatexCompileError block
TransformRepair(j) ==
    /\ At(j, "transform_tex_task", "repair")
    /\ CallLlm(j, "recompile")
    /\ UNCHANGED <<docVars, storeVars, aside, web>>

\* the second compile with its LatexCompileError caught again: another repair round
TransformRecompile_retry(j) ==
    /\ At(j, "transform_tex_task", "recompile")
    /\ CallCompile(j, "persist", TRUE)
    /\ UNCHANGED <<docVars, versions, chunks_fts, aside, web>>

\* the second compile, inside the except block: its failure propagates
TransformRecompile(j) ==
    /\ At(j, "transform_tex_task", "recompile")
    /\ CallCompile(j, "persist", FALSE)
    /\ UNCHANGED <<docVars, versions, chunks_fts, aside, web>>

\* a persist transaction that returns from the liveness check without a write
PersistDraft_silent_discard(j) ==
    IF ~editor_active(editor_open, editor_heartbeat_at, now)
    THEN UNCHANGED <<status, last_error, storeVars>>
    ELSE LET plain == tex_to_text(job[j].full_tex)
         IN  /\ versions' = upsert_draft(versions, job[j].full_tex,
                                         generated_pdf_path("draft"), plain)
             /\ chunks_fts' = fts_rebuild(chunks_fts, "draft", plain)
             /\ status' = "ready"
             /\ last_error' = <<>>
             /\ UNCHANGED files

\* the persist transaction of both draft-writing jobs: liveness check, upsert
\* of the draft row, index rebuild, status=ready
PersistDraft(j) ==
    IF ~editor_active(editor_open, editor_heartbeat_at, now)
    THEN /\ status' = "ready"
         /\ UNCHANGED <<last_error, storeVars>>
    ELSE LET plain == tex_to_text(job[j].full_tex)
         IN  /\ versions' = upsert_draft(versions, job[j].full_tex,
                                         generated_pdf_path("draft"), plain)
             /\ chunks_fts' = fts_rebuild(chunks_fts, "draft", plain)
             /\ status' = "ready"
             /\ last_error' = <<>>
             /\ UNCHANGED files

TransformPersist(j) ==
    /\ At(j, "transform_tex_task", "persist")
    /\ PersistDraft(j)
    /\ job' = [job EXCEPT ![j] = Returned]
    /\ UNCHANGED <<editor_open, editor_heartbeat_at, extracted_text, aside, web>>

\* the except block of the transform and normalize jobs: status=error,
\* last_error=str(e), then raise
JobExcept(j, func) ==
    /\ At(j, func, "except")
    /\ status' = "error"
    /\ last_error' = <<job[j].err>>
    /\ job' = [job EXCEPT ![j] = Raised]
    /\ UNCHANGED <<editor_open, editor_heartbeat_at, extracted_text, storeVars, aside, web>>

TransformExcept(j) == JobExcept(j, "transform_tex_task")

-----------------------------------------------------------------------------
(* Deterministic-normalize job: tasks.normalize_original_task *)

NormalizeBegin(j) == JobBegin(j, "normalize_original_task", "check")

\* the second transaction: liveness check, then the text to convert
NormalizeCheck(j) ==
    /\ At(j, "normalize_original_task", "check")
    /\ IF ~editor_active(editor_open, editor_heartbeat_at, now)
       THEN /\ status' = "ready"
            /\ job' = [job EXCEPT ![j] = Returned]
            /\ UNCHANGED extracted_text
       ELSE /\ LET text == IF Strip(extracted_text) # <<>>
                           THEN Strip(extracted_text) ELSE PdfText
                   r == [job[j] EXCEPT !.full_tex =
                            make_full_tex(text_to_tex_body_no_change(text), FALSE)]
               IN  IF Strip(extracted_text) # <<>>
                   THEN /\ Goto(j, r, "compile")
                        /\ UNCHANGED extracted_text
                   ELSE \/ /\ extracted_text' = PdfText
                           /\ Goto(j, r, "compile")
                        \/ /\ Raise(j, job[j], ExtractError)
                           /\ UNCHANGED extracted_text
            /\ UNCHANGED status
    /\ UNCHANGED <<last_error, editor_open, editor_heartbeat_at, storeVars, aside, web>>

\* a compile whose LatexCompileError is caught for a repair round
NormalizeCompile_repairs(j) ==
    /\ At(j, "normalize_original_task", "compile")
    /\ CallCompile(j, "persist", TRUE)
    /\ UNCHANGED <<docVars, versions, chunks_fts, aside, web>>

\* the only compile of the job: every failure propagates
NormalizeCompile(j) ==
    /\ At(j, "normalize_original_task", "compile")
    /\ CallCompile(j, "persist", FALSE)
    /\ UNCHANGED <<docVars, versions, chunks_fts, aside, web>>

NormalizePersist(j) ==
    /\ At(j, "normalize_original_task", "persist")
    /\ PersistDraft(j)
    /\ job' = [job EXCEPT ![j] = Returned]
    /\ UNCHANGED <<editor_open, editor_heartbeat_at, extracted_text, aside, web>>

NormalizeExcept(j) == JobExcept(j, "normalize_original_task")

-----------------------------------------------------------------------------
(* Version transitions as the web handlers and the reaper call them *)

\* tasks.discard_draft: one transaction
DiscardDraft ==
    /\ versions' = discard_versions(versions)
    /\ files' = discard_files(files, versions)
    /\ chunks_fts' = discard_fts(chunks_fts)
    /\ UNCHANGED docVars

\* promotion that evicts the prior saved row before it looks for the draft row
PromoteDraftToSaved_evict_first ==
    IF RowsOfKind(versions, "draft") = {}
    THEN /\ versions' = versions \ RowsOfKind(versions, "saved")
         /\ files' = remove_if_exists(files, generated_pdf_path("saved"))
         /\ UNCHANGED <<docVars, chunks_fts>>
    ELSE /\ versions' = promote_versions(versions)
         /\ \E copy_ok \in BOOLEAN : files' = promote_files(files, versions, copy_ok)
         /\ chunks_fts' = promote_fts(chunks_fts, versions)
         /\ status' = "ready"
         /\ last_error' = <<>>
         /\ UNCHANGED <<editor_open, editor_heartbeat_at, extracted_text>>

\* promotion that gives up, changing nothing, when the draft artifact is not there to copy
PromoteDraftToSaved_strict ==
    IF \/ RowsOfKind(versions, "draft") = {}
       \/ files[First(RowsOfKind(versions, "draft")).pdf_path] = <<>>
    THEN UNCHANGED <<docVars, storeVars>>
    ELSE /\ versions' = promote_versions(versions)
         /\ files' = promote_files(files, versions, TRUE)
         /\ chunks_fts' = promote_fts(chunks_fts, versions)
         /\ status' = "ready"
         /\ last_error' = <<>>
         /\ UNCHANGED <<editor_open, editor_heartbeat_at, extracted_text>>

\* tasks.promote_draft_to_saved: one transaction; returns at once without a draft row
PromoteDraftToSaved ==
    IF RowsOfKind(versions, "draft") = {}
    THEN UNCHANGED <<docVars, storeVars>>
    ELSE /\ versions' = promote_versions(versions)
         /\ \E copy_ok \in BOOLEAN : files' = promote_files(files, versions, copy_ok)
         /\ chunks_fts' = promote_fts(chunks_fts, versions)
         /\ status' = "ready"
         /\ last_error' = <<>>
         /\ UNCHANGED <<editor_open, editor_heartbeat_at, extracted_text>>

-----------------------------------------------------------------------------
(* Web handlers: src/app/server.py *)

\* GET /doc/{id} and GET /api/doc/{id}/status: every viewer read is a heartbeat
DocView ==
    /\ editor_open' = TRUE
    /\ editor_heartbeat_at' = <<now>>
    /\ UNCHANGED <<status, last_error, extracted_text, storeVars, aside, job, web>>

\* the transaction of /apply and /normalize_original before the enqueue
MarkQueued ==
    /\ status' = "queued"
    /\ last_error' = <<>>
    /\ editor_open' = TRUE
    /\ editor_heartbeat_at' = <<now>>
    /\ UNCHANGED <<extracted_text, storeVars, aside, web>>

\* POST /doc/{id}/apply, with the table-of-contents option drawn from tocs
Apply(j, tocs) ==
    /\ SlotFree(j)
    /\ MarkQueued
    /\ \E toc_indexes \in tocs :
          job' = [job EXCEPT ![j] = NewJob("transform_tex_task", toc_indexes)]

ApplyChanges(j) == Apply(j, BOOLEAN)

\* the same request with the table of contents left unticked
ApplyChangesPlain(j) == Apply(j, {FALSE})

\* POST /doc/{id}/normalize_original
NormalizeOriginal(j) ==
    /\ SlotFree(j)
    /\ MarkQueued
    /\ job' = [job EXCEPT ![j] = NewJob("normalize_original_task", FALSE)]

\* POST /doc/{id}/save, first transaction: promote only a ready document whose
\* draft row has its artifact on disk
SaveChanges ==
    /\ web = "idle"
    /\ RowsOfKind(versions, "draft") # {}
    /\ status = "ready"
    /\ LET draft == First(RowsOfKind(versions, "draft"))
       IN  draft.pdf_path # "" /\ files[draft.pdf_path] # <<>>
    /\ web' = "save_promote"
    /\ UNCHANGED <<docVars, storeVars, aside, job>>

\* POST /doc/{id}/save, the call of promote_draft_to_saved
SavePromote ==
    /\ web = "save_promote"
    /\ PromoteDraftToSaved
    /\ web' = "idle"
    /\ UNCHANGED <<aside, job>>

\* POST /doc/{id}/cancel
CancelChanges ==
    /\ DiscardDraft
    /\ UNCHANGED <<aside, job, web>>

\* POST /doc/{id}/clear_error; the original artifact of the document is on disk
ClearError ==
    /\ last_error' = <<>>
    /\ status' = "ready"
    /\ UNCHANGED <<editor_open, editor_heartbeat_at, extracted_text, storeVars, aside, job, web>>

\* a close that forgets the heartbeat and leaves the flag as it was
CloseEditor_heartbeat_only ==
    /\ web = "idle"
    /\ editor_heartbeat_at' = <<>>
    /\ web' = "close_discard"
    /\ UNCHANGED <<status, last_error, editor_open, extracted_text, storeVars, aside, job>>

\* POST /doc/{id}/close and /close_page, first transaction
CloseEditor ==
    /\ web = "idle"
    /\ editor_open' = FALSE
    /\ editor_heartbeat_at' = <<>>
    /\ web' = "close_discard"
    /\ UNCHANGED <<status, last_error, extracted_text, storeVars, aside, job>>

\* POST /doc/{id}/close and /close_page, the call of discard_draft
CloseDiscard ==
    /\ web = "close_discard"
    /\ DiscardDraft
    /\ web' = "idle"
    /\ UNCHANGED <<aside, job>>

\* GET /app, the reaper: a stale open editor has its draft discarded (committed
\* by discard_draft's own session) before the dashboard's session commits
ReaperDiscard ==
    /\ web = "idle"
    /\ editor_open
    /\ editor_heartbeat_at # <<>>
    /\ (now - editor_heartbeat_at[1]) > EDITOR_STALE_SECONDS
    /\ DiscardDraft
    /\ web' = "reaper_commit"
    /\ UNCHANGED <<aside, job>>

\* GET /app, the commit of the dashboard's session: editor_open = False
ReaperCommit ==
    /\ web = "reaper_commit"
    /\ editor_open' = FALSE
    /\ web' = "idle"
    /\ UNCHANGED <<status, last_error, editor_heartbeat_at, extracted_text, storeVars, aside, job>>

\* time passes
Tick ==
    /\ \E t \in TimePoints : t > now /\ now' = t
    /\ UNCHANGED <<docVars, storeVars, job, web, index_text, rerun, view, llm, cc, tmp, models>>

-----------------------------------------------------------------------------

\* the steps of the job in slot j
JobStep(j) ==
    \/ IngestBegin(j) \/ IngestWork(j) \/ IngestExcept(j)
    \/ TransformBegin(j) \/ TransformInput(j) \/ TransformLlm(j)
    \/ TransformCompile(j) \/ TransformRepair(j) \/ TransformRecompile(j)
    \/ TransformPersist(j) \/ TransformExcept(j)
    \/ NormalizeBegin(j) \/ NormalizeCheck(j) \/ NormalizeCompile(j)
    \/ NormalizePersist(j) \/ NormalizeExcept(j)

\* the web requests that queue a job into slot j
Enqueue(j) == ApplyChanges(j) \/ NormalizeOriginal(j)

\* the other web requests of the editor page
EditorStep ==
    \/ DocView
    \/ SaveChanges \/ SavePromote
    \/ CancelChanges
    \/ CloseEditor \/ CloseDiscard

\* one worker, every web request, the reaper and the clock
Next ==
    \/ \E j \in OneWorker : JobStep(j) \/ Enqueue(j)
    \/ EditorStep
    \/ ClearError
    \/ ReaperDiscard \/ ReaperCommit
    \/ Tick

Spec == Init /\ [][Next]_vars

\* two workers racing on the document, with the requests of the editor page
NextRace ==
    \/ \E j \in Jobs : JobStep(j) \/ ApplyChangesPlain(j) \/ NormalizeOriginal(j)
    \/ EditorStep

SpecRace == Init /\ [][NextRace]_vars

-----------------------------------------------------------------------------
(* The index sync on its own: fts_rebuild applied to texts of every shape *)

\* the longest text is MaxChunks full chunks and a little more
MaxChunks == 2

\* lengths up to Near characters around every multiple of MaxChars
Near == 2

\* whitespace characters before and after the text
MaxPad == 1

Spaces(n) == [i \in 1..n |-> " "]

\* n characters, a blank inside every ten, none at either end
Core(n) == [i \in 1..n |-> IF i > 1 /\ i < n /\ i % 10 = 5 THEN " " ELSE "a"]

ChunkLengths ==
    {n \in 0..((MaxChunks + 1) * MaxChars) :
        \E m \in 0..MaxChunks :
            \/ n - m * MaxChars \in (0 - Near)..Near
            \/ n = m * MaxChars + (MaxChars \div 2)}

IndexTexts ==
    {Spaces(a) \o Core(n) \o Spaces(b) : a \in 0..MaxPad, b \in 0..MaxPad, n \in ChunkLengths}

InitIndex ==
    /\ index_text \in IndexTexts
    /\ status = "ready"
    /\ last_error = <<>>
    /\ editor_open = FALSE
    /\ editor_heartbeat_at = <<>>
    /\ extracted_text = <<>>
    /\ versions = {}
    /\ files = [p \in Paths |-> <<>>]
    /\ chunks_fts = [k \in Kinds |-> <<>>]
    /\ now = 0
    /\ job = [j \in Jobs |-> IdleJob]
    /\ web = "idle"
    /\ rerun = NoRerun
    /\ view = <<>>
    /\ llm = NoCall
    /\ cc = NoCompile
    /\ tmp = NoScratch
    /\ models = NoModels

\* fts_rebuild(conn, doc_id, kind, text)
IndexRebuild(kind) ==
    /\ chunks_fts' = fts_rebuild(chunks_fts, kind, index_text)
    /\ UNCHANGED <<docVars, versions, files, now, job, web, index_text, rerun, view, llm, cc, tmp, models>>

NextIndex == \E kind \in Kinds : IndexRebuild(kind)

SpecIndex == InitIndex /\ [][NextIndex]_vars

-----------------------------------------------------------------------------
(* The liveness check on its own: a job meets every editor state and clock *)

\* the latest instant of the clock
MaxNow == 125

\* the latest heartbeat
MaxBeat == 4

\* a job of each kind in front of its liveness check
LiveJobs ==
    {[NewJob("transform_tex_task", FALSE) EXCEPT
         !.pc = "persist", !.compiles = 1, !.llm_calls = 1,
         !.full_tex = make_full_tex(extract_body(tex_raw), FALSE)] : tex_raw \in LlmOutputs}
    \cup {[NewJob("normalize_original_task", FALSE) EXCEPT
         !.pc = "persist", !.compiles = 1,
         !.full_tex = make_full_tex(text_to_tex_body_no_change(PdfText), FALSE)]}
    \cup {[NewJob("normalize_original_task", FALSE) EXCEPT !.pc = "check"]}

InitLive ==
    /\ editor_open \in BOOLEAN
    /\ editor_heartbeat_at \in {<<>>, <<0>>, <<MaxBeat>>}
    /\ now \in 0..MaxNow
    /\ status = "processing"
    /\ last_error = <<>>
    /\ extracted_text = PdfText
    /\ versions = {}
    /\ files = [p \in Paths |-> IF p = generated_pdf_path("draft")
                                THEN <<make_full_tex(<<>>, FALSE)>> ELSE <<>>]
    /\ chunks_fts = fts_rebuild([k \in Kinds |-> <<>>], "original", PdfText)
    /\ \E r \in LiveJobs : job = [j \in Jobs |-> IF j = "j1" THEN r ELSE IdleJob]
    /\ web = "idle"
    /\ index_text = <<>>
    /\ rerun = NoRerun
    /\ view = <<>>
    /\ llm = NoCall
    /\ cc = NoCompile
    /\ tmp = NoScratch
    /\ models = NoModels

NextLive ==
    \E j \in OneWorker : TransformPersist(j) \/ NormalizeCheck(j) \/ NormalizePersist(j)

SpecLive == InitLive /\ [][NextLive]_vars

(* The dashboard's reaper beside the jobs' liveness check, at every age *)

\* an open editor has a heartbeat (doc_view sets both); a closed one may keep
\* the heartbeat of its last request (the reaper leaves it in place)
InitReap ==
    /\ InitLive
    /\ editor_open => editor_heartbeat_at # <<>>

NextReap ==
    \/ ReaperDiscard
    \/ ReaperCommit
    \/ \E j \in OneWorker : TransformPersist(j) \/ NormalizeCheck(j) \/ NormalizePersist(j)

SpecReap == InitReap /\ [][NextReap]_vars

-----------------------------------------------------------------------------
(* At-least-once delivery: the queue executes an ingest or normalize job twice *)

\* the version rows a document can have when the job arrives: none, a draft
\* written by a transform job, the saved row of its promotion, or both
RerunVersions ==
    LET tex == make_full_tex(extract_body(CHOOSE t \in LlmOutputs : TRUE), TRUE)
        d == upsert_draft({}, tex, generated_pdf_path("draft"), tex_to_text(tex))
        sv == promote_versions(d)
    IN  {{}, d, sv, upsert_draft(sv, tex, generated_pdf_path("draft"), tex_to_text(tex))}

\* the document fields, rows and index entries a run leaves (timestamps are not modelled)
Observed ==
    [status |-> status, last_error |-> last_error, editor_open |-> editor_open,
     editor_heartbeat_at |-> editor_heartbeat_at, extracted_text |-> extracted_text,
     versions |-> versions, chunks_fts |-> chunks_fts]

InitRerun ==
    /\ \E func \in {"process_pdf_task", "normalize_original_task"} :
          /\ rerun = [func |-> func, first |-> <<>>]
          /\ job = [j \in Jobs |-> IF j = "j1" THEN NewJob(func, FALSE) ELSE IdleJob]
          /\ editor_open \in (IF func = "process_pdf_task" THEN BOOLEAN ELSE {TRUE})
    /\ editor_heartbeat_at = IF editor_open THEN <<0>> ELSE <<>>
    /\ now = 0
    /\ status = "queued"
    /\ last_error \in {<<>>, <<ExtractError>>}
    /\ extracted_text \in {<<>>, PdfText}
    /\ versions \in RerunVersions
    /\ files = [p \in Paths |-> IF \E v \in versions : v.pdf_path = p
                                THEN <<(CHOOSE v \in versions : v.pdf_path = p).tex_source>>
                                ELSE <<>>]
    /\ chunks_fts = [k \in Kinds |->
                        IF k = "original" THEN chunk_text(extracted_text, MaxChars)
                        ELSE IF RowsOfKind(versions, k) # {}
                        THEN chunk_text(First(RowsOfKind(versions, k)).plain_text, MaxChars)
                        ELSE <<>>]
    /\ web = "idle"
    /\ index_text = <<>>
    /\ view = <<>>
    /\ llm = NoCall
    /\ cc = NoCompile
    /\ tmp = NoScratch
    /\ models = NoModels

\* the queue delivers the finished job once more, with the same arguments
Rerun(j) ==
    /\ SlotFree(j)
    /\ rerun.func # "none"
    /\ rerun.first = <<>>
    /\ rerun' = [rerun EXCEPT !.first = <<Observed>>]
    /\ job' = [job EXCEPT ![j] = NewJob(rerun.func, FALSE)]
    /\ UNCHANGED <<docVars, storeVars, now, web, index_text, view, llm, cc, tmp, models>>

NextRerun ==
    \E j \in OneWorker :
        \/ IngestBegin(j) \/ IngestWork(j) \/ IngestExcept(j)
        \/ NormalizeBegin(j) \/ NormalizeCheck(j) \/ NormalizeCompile(j)
        \/ NormalizePersist(j) \/ NormalizeExcept(j)
        \/ Rerun(j)

SpecRerun == InitRerun /\ [][NextRerun]_vars

-----------------------------------------------------------------------------
(* The viewer's page on its own: GET /doc/{id}?v=... on every document state *)

\* the values of the query parameter v: absent, the three kinds, anything else
ReqKinds == {"", "original", "saved", "draft", "other"}

Statuses == {"queued", "processing", "ready", "error"}

\* a resolution that looks at saved before draft when no kind is named
effective_v_saved_first(v, st, has_saved, has_draft) ==
    LET req_v == IF v \in {"", "original", "saved", "draft"} THEN v ELSE ""
        busy == st \in {"queued", "processing"}
    IN  IF req_v \in {"", "saved"}
        THEN IF has_saved THEN "saved"
             ELSE IF busy \/ has_draft THEN "draft"
             ELSE "original"
        ELSE IF req_v = "draft"
        THEN IF busy \/ has_draft THEN "draft"
             ELSE IF has_saved THEN "saved"
             ELSE "original"
        ELSE "original"

\* server._effective_view, which no handler calls: the named kind if its row
\* exists, original otherwise
effective_view(v, st, has_saved, has_draft) ==
    LET req_v == IF v = "" THEN "original" ELSE v
    IN  IF req_v = "saved" /\ has_saved THEN "saved"
        ELSE IF req_v = "draft" /\ has_draft THEN "draft"
        ELSE "original"

\* a resolution that gives draft to a bare request of a busy document and
\* wants a draft row when draft is asked for by name
effective_v_draft_needs_row(v, st, has_saved, has_draft) ==
    LET req_v == IF v \in {"", "original", "saved", "draft"} THEN v ELSE ""
        busy == st \in {"queued", "processing"}
    IN  IF req_v = ""
        THEN IF busy \/ has_draft THEN "draft"
             ELSE IF has_saved THEN "saved"
             ELSE "original"
        ELSE IF req_v = "saved"
        THEN IF has_saved THEN "saved"
             ELSE IF busy \/ has_draft THEN "draft"
             ELSE "original"
        ELSE IF req_v = "draft"
        THEN IF has_draft THEN "draft"
             ELSE IF has_saved THEN "saved"
             ELSE "original"
        ELSE "original"

\* doc_view's resolution of the requested kind v
effective_v(v, st, has_saved, has_draft) ==
    LET req_v == IF v \in {"", "original", "saved", "draft"} THEN v ELSE ""
        busy == st \in {"queued", "processing"}
    IN  IF req_v = ""
        THEN IF busy \/ has_draft THEN "draft"
             ELSE IF has_saved THEN "saved"
             ELSE "original"
        ELSE IF req_v = "saved"
        THEN IF has_saved THEN "saved"
             ELSE IF busy \/ has_draft THEN "draft"
             ELSE "original"
        ELSE IF req_v = "draft"
        THEN IF busy \/ has_draft THEN "draft"
             ELSE IF has_saved THEN "saved"
             ELSE "original"
        ELSE "original"

\* saved_pdf_ready, draft_pdf_ready: the row exists and its artifact is on disk
pdf_ready(kind) ==
    \E v \in RowsOfKind(versions, kind) : v.pdf_path # "" /\ files[v.pdf_path] # <<>>

\* server._pdf_url after the readiness tests of doc_view
pdf_url(eff) ==
    IF eff \in {"saved", "draft"} /\ pdf_ready(eff) THEN eff ELSE "original"

\* GET /doc/{id}?v=v: the heartbeat, then a redirect to the effective kind or the page
ViewRequest(v) ==
    LET req_v == IF v \in {"", "original", "saved", "draft"} THEN v ELSE ""
        eff == effective_v(v, status, RowsOfKind(versions, "saved") # {},
                           RowsOfKind(versions, "draft") # {})
    IN  /\ editor_open' = TRUE
        /\ editor_heartbeat_at' = <<now>>
        /\ view' = <<[v |-> v, effective_v |-> eff,
                      response |-> IF eff # req_v THEN "303" ELSE "page",
                      pdf_url |-> IF eff # req_v THEN "" ELSE pdf_url(eff)]>>
        /\ UNCHANGED <<status, last_error, extracted_text, storeVars, now, index_text,
                       rerun, job, web, llm, cc, tmp, models>>

InitView ==
    /\ status \in Statuses
    /\ last_error = IF status = "error" THEN <<LlmError>> ELSE <<>>
    /\ editor_open \in BOOLEAN
    /\ editor_heartbeat_at = IF editor_open THEN <<0>> ELSE <<>>
    /\ now = 0
    /\ extracted_text = PdfText
    /\ versions \in RerunVersions
    /\ files \in {fs \in [Paths -> {<<>>, <<make_full_tex(<<>>, FALSE)>>}] :
                      fs[generated_pdf_path("saved")] # <<>>
                      => RowsOfKind(versions, "saved") # {}}
    /\ chunks_fts = [k \in Kinds |->
                        IF k = "original" THEN chunk_text(extracted_text, MaxChars)
                        ELSE IF RowsOfKind(versions, k) # {}
                        THEN chunk_text(First(RowsOfKind(versions, k)).plain_text, MaxChars)
                        ELSE <<>>]
    /\ job = [j \in Jobs |-> IdleJob]
    /\ web = "idle"
    /\ index_text = <<>>
    /\ rerun = NoRerun
    /\ view = <<>>
    /\ llm = NoCall
    /\ cc = NoCompile
    /\ tmp = NoScratch
    /\ models = NoModels

NextView == \E v \in ReqKinds : ViewRequest(v)

SpecView == InitView /\ [][NextView]_vars

-----------------------------------------------------------------------------
(* Rewrite Service on its own: one call of call_llm_tex, src/app/llm.py *)

\* pick_models(limit=8): the longest list it returns
PickLimit == 8

\* model_candidates[:6]
MaxAttempts == 6

\* the ids of the provider's catalogue, and the concrete id OPENROUTER_MODEL may name
CatalogIds == 1..PickLimit
ConfiguredId == 0

\* str(e) of the failures of one completion attempt and of the catalogue lookup
NoEndpointsError == "OpenRouter error 404: No endpoints found"
OtherChatError == "OpenRouter error 500"
CatalogError == "503 Server Error"
ChatErrors == {NoEndpointsError, OtherChatError}

\* the settings the process starts with
LlmSettings ==
    {[provider |-> "none", api_key |-> TRUE, model |-> "auto"],
     [provider |-> "other", api_key |-> TRUE, model |-> "auto"],
     [provider |-> "openrouter", api_key |-> FALSE, model |-> "auto"],
     [provider |-> "openrouter", api_key |-> TRUE, model |-> "auto"],
     [provider |-> "openrouter", api_key |-> TRUE, model |-> ""],
     [provider |-> "openrouter", api_key |-> TRUE, model |-> "id"]}

RECURSIVE Ascending(_)
Ascending(S) ==
    IF S = {} THEN <<>>
    ELSE <<Min(S)>> \o Ascending(S \ {Min(S)})

Reverse(s) == [i \in 1..Len(s) |-> s[Len(s) + 1 - i]]

\* the lists pick_models can return: catalogue ids, at most PickLimit of them,
\* distinct on the scored path and possibly repeated on the fallback to ids[:limit]
PickedLists ==
    {Ascending(S) : S \in SUBSET CatalogIds} \cup {Reverse(Ascending(S)) : S \in SUBSET CatalogIds}
    \cup {<<1, 1>>}

\* a loop that walks the whole candidate list
capped_unbounded(cs) == cs

\* model_candidates[:6]
capped(cs) == SubSeq(cs, 1, Min({Len(cs), MaxAttempts}))

\* the checks of the settings and the choice of the candidates (llm.py:96-117)
LlmBegin ==
    /\ llm.pc = "start"
    /\ LET st == llm.settings
       IN  IF st.provider = "none"
           THEN llm' = [llm EXCEPT !.pc = "raised", !.err = "LLM_PROVIDER=none (disabled)"]
           ELSE IF st.provider # "openrouter"
           THEN llm' = [llm EXCEPT !.pc = "raised", !.err = "Unsupported LLM_PROVIDER"]
           ELSE IF ~st.api_key
           THEN llm' = [llm EXCEPT !.pc = "raised", !.err = "OPENROUTER_API_KEY is empty"]
           ELSE IF st.model \notin {"", "auto"}
           THEN llm' = [llm EXCEPT !.pc = "loop", !.model_candidates = <<ConfiguredId>>]
           ELSE \/ \E cs \in PickedLists :
                      llm' = [llm EXCEPT !.pc = "loop", !.model_candidates = cs]
                \/ llm' = [llm EXCEPT !.pc = "raised", !.err = CatalogError]
    /\ UNCHANGED <<docVars, storeVars, now, job, web, index_text, rerun, view, cc, tmp, models>>

\* one iteration of the loop whose _post_chat returns (llm.py:118-122)
LlmPostChatOk ==
    /\ llm.pc = "loop"
    /\ llm.i <= Len(capped(llm.model_candidates))
    /\ LET mid == capped(llm.model_candidates)[llm.i]
       IN  \E t \in LlmOutputs :
              llm' = [llm EXCEPT !.pc = "returned",
                                 !.posted = Append(@, mid),
                                 !.out = <<[model |-> mid, content |-> t]>>,
                                 !.mid = <<mid>>]
    /\ UNCHANGED <<docVars, storeVars, now, job, web, index_text, rerun, view, cc, tmp, models>>

\* a loop that gives up at the first failure that is not a missing endpoint
LlmPostChatFail_give_up ==
    /\ llm.pc = "loop"
    /\ llm.i <= Len(capped(llm.model_candidates))
    /\ LET mid == capped(llm.model_candidates)[llm.i]
       IN  \E e \in ChatErrors :
              llm' = [llm EXCEPT !.posted = Append(@, mid),
                                 !.failures = Append(@, e),
                                 !.last_err = e,
                                 !.i = @ + 1,
                                 !.pc = IF e = NoEndpointsError THEN "loop" ELSE "raised",
                                 !.err = IF e = NoEndpointsError THEN "" ELSE e]
    /\ UNCHANGED <<docVars, storeVars, now, job, web, index_text, rerun, view, cc, tmp, models>>

\* one iteration of the loop whose _post_chat raises (llm.py:118-129);
\* failures is the record of what _post_chat raised, attempt by attempt
LlmPostChatFail ==
    /\ llm.pc = "loop"
    /\ llm.i <= Len(capped(llm.model_candidates))
    /\ LET mid == capped(llm.model_candidates)[llm.i]
       IN  \E e \in ChatErrors :
              llm' = [llm EXCEPT !.posted = Append(@, mid),
                                 !.failures = Append(@, e),
                                 !.last_err = e,
                                 !.i = @ + 1]
    /\ UNCHANGED <<docVars, storeVars, now, job, web, index_text, rerun, view, cc, tmp, models>>

\* the loop is over without a return (llm.py:131)
LlmExhausted ==
    /\ llm.pc = "loop"
    /\ llm.i > Len(capped(llm.model_candidates))
    /\ llm' = [llm EXCEPT !.pc = "raised",
                          !.err = IF llm.last_err # "" THEN llm.last_err ELSE LlmError]
    /\ UNCHANGED <<docVars, storeVars, now, job, web, index_text, rerun, view, cc, tmp, models>>

InitLlm ==
    /\ status = "processing"
    /\ last_error = <<>>
    /\ editor_open = TRUE
    /\ editor_heartbeat_at = <<0>>
    /\ now = 0
    /\ extracted_text = PdfText
    /\ versions = {}
    /\ files = [p \in Paths |-> <<>>]
    /\ chunks_fts = [k \in Kinds |->
                        IF k = "original" THEN chunk_text(extracted_text, MaxChars) ELSE <<>>]
    /\ job = [j \in Jobs |-> IdleJob]
    /\ web = "idle"
    /\ index_text = <<>>
    /\ rerun = NoRerun
    /\ view = <<>>
    /\ \E st \in LlmSettings : llm = [NoCall EXCEPT !.pc = "start", !.settings = st]
    /\ cc = NoCompile
    /\ tmp = NoScratch
    /\ models = NoModels

NextLlm == LlmBegin \/ LlmPostChatOk \/ LlmPostChatFail \/ LlmExhausted

SpecLlm == InitLlm /\ [][NextLlm]_vars

-----------------------------------------------------------------------------
(* Compiler Adapter on its own: one call of compile_tex_to_pdf, src/app/latex.py *)

\* the largest LATEX_MAX_RUNS the process is started with
MaxSetting == 6

LatexMaxRuns == 0..MaxSetting

\* what a pass of the compiler prints (the last 8000 characters of it)
PassOutputs == {"This is LuaHBTeX", CompileDiagnostic}

\* a pass count that ignores LATEX_MAX_RUNS
runs_of_uncapped(toc, max_runs) == IF toc THEN 2 ELSE 1

\* the passes of a call: 2 with a table of contents, else 1, at most
\* LATEX_MAX_RUNS clamped into 1..5
runs_of(toc, max_runs) ==
    Min({IF toc THEN 2 ELSE 1, Max({1, Min({5, max_runs})})})

\* the destination of the call, and what a compile of a source leaves there
OutPdf == generated_pdf_path("draft")
PdfOf(tex_source) == <<tex_source>>

\* the call raises: the finally clause removes the scratch directory
CompileRaise(type, msg) ==
    cc' = [cc EXCEPT !.pc = "raised", !.exc = <<[type |-> type, msg |-> msg]>>,
                     !.workdir = "removed", !.scratch = {}]

\* the scratch directories a call may be given
MaxDirs == 3
DirNames == 1..MaxDirs

\* a directory name taken from the destination, the same for every call
uuid4_fixed(t) == {1}

\* uuid.uuid4().hex: a name that no call was given before
uuid4(t) == DirNames \ {t.names[k] : k \in 1..Len(t.names)}

\* workdir.mkdir, main.tex written, the number of passes fixed (latex.py:15-37)
CompileBegin ==
    /\ cc.pc = "start"
    /\ \E d \in uuid4(tmp) :
          /\ cc' = [cc EXCEPT !.pc = "pass", !.workdir = "present", !.dir = <<d>>,
                              !.scratch = {"main.tex"},
                              !.runs = runs_of(cc.toc, cc.max_runs)]
          /\ tmp' = [tmp EXCEPT !.names = Append(@, d)]
    /\ UNCHANGED <<docVars, storeVars, now, job, web, index_text, rerun, view, llm, models>>

\* a loop that runs every scheduled pass and raises for the last failure afterwards
CompilePass_keeps_going ==
    /\ cc.pc = "pass"
    /\ Len(cc.passes) < cc.runs
    /\ \E code \in {0, 1}, out \in PassOutputs, pdf \in BOOLEAN :
          LET c == [cc EXCEPT !.passes = Append(@, [code |-> code, out |-> out]),
                              !.last_out = out,
                              !.scratch = IF code = 0 /\ pdf THEN @ \cup {"main.pdf"} ELSE @]
          IN  IF code # 0 /\ Len(c.passes) = cc.runs
              THEN cc' = [c EXCEPT !.pc = "raised",
                                   !.exc = <<[type |-> "LatexCompileError", msg |-> <<out>>]>>,
                                   !.workdir = "removed", !.scratch = {}]
              ELSE cc' = c
    /\ UNCHANGED <<docVars, storeVars, now, job, web, index_text, rerun, view, llm, tmp, models>>

\* a loop whose every clean pass publishes its main.pdf at the destination
CompilePass_publishes ==
    /\ cc.pc = "pass"
    /\ Len(cc.passes) < cc.runs
    /\ \E code \in {0, 1}, out \in PassOutputs, pdf \in BOOLEAN :
          LET c == [cc EXCEPT !.passes = Append(@, [code |-> code, out |-> out]),
                              !.last_out = out,
                              !.scratch = IF code = 0 /\ pdf THEN @ \cup {"main.pdf"} ELSE @]
          IN  /\ IF code # 0
                 THEN cc' = [c EXCEPT !.pc = "raised",
                                      !.exc = <<[type |-> "LatexCompileError", msg |-> <<out>>]>>,
                                      !.workdir = "removed", !.scratch = {}]
                 ELSE cc' = c
              /\ files' = IF code = 0 /\ pdf
                          THEN [files EXCEPT ![OutPdf] = PdfOf(cc.tex_source)]
                          ELSE files
    /\ UNCHANGED <<docVars, versions, chunks_fts, now, job, web, index_text, rerun, view, llm, tmp, models>>

\* one iteration of the loop: subprocess.run, last_out, the test of the exit
\* code (latex.py:39-50); passes is the record of what each pass returned
CompilePass ==
    /\ cc.pc = "pass"
    /\ Len(cc.passes) < cc.runs
    /\ \E code \in {0, 1}, out \in PassOutputs, pdf \in BOOLEAN :
          LET c == [cc EXCEPT !.passes = Append(@, [code |-> code, out |-> out]),
                              !.last_out = out,
                              !.scratch = IF code = 0 /\ pdf THEN @ \cup {"main.pdf"} ELSE @]
          IN  IF code # 0
              THEN cc' = [c EXCEPT !.pc = "raised",
                                   !.exc = <<[type |-> "LatexCompileError", msg |-> <<out>>]>>,
                                   !.workdir = "removed", !.scratch = {}]
              ELSE cc' = c
    /\ UNCHANGED <<docVars, storeVars, now, job, web, index_text, rerun, view, llm, tmp, models>>

\* subprocess.run cannot start the compiler: its exception leaves the call
CompileCrash ==
    /\ cc.pc = "pass"
    /\ Len(cc.passes) < cc.runs
    /\ CompileRaise("OSError", <<OsError>>)
    /\ UNCHANGED <<docVars, storeVars, now, job, web, index_text, rerun, view, llm, tmp, models>>

\* an end of the call that copies whatever the scratch directory holds and
\* reports success whenever every pass exited with code 0
CompileFinish_trusts_exit ==
    /\ cc.pc = "pass"
    /\ Len(cc.passes) = cc.runs
    /\ files' = [files EXCEPT ![OutPdf] = IF "main.pdf" \in cc.scratch
                                          THEN PdfOf(cc.tex_source) ELSE <<>>]
    /\ cc' = [cc EXCEPT !.pc = "returned", !.workdir = "removed", !.scratch = {}]
    /\ UNCHANGED <<docVars, versions, chunks_fts, now, job, web, index_text, rerun, view, llm, tmp, models>>

\* after the loop: main.pdf must exist in the scratch directory, then it is
\* copied to the destination; the finally clause (latex.py:52-61)
CompileFinish ==
    /\ cc.pc = "pass"
    /\ Len(cc.passes) = cc.runs
    /\ IF "main.pdf" \notin cc.scratch
       THEN /\ CompileRaise("LatexCompileError", <<"PDF not produced. Output:", cc.last_out>>)
            /\ UNCHANGED files
       ELSE /\ files' = [files EXCEPT ![OutPdf] = PdfOf(cc.tex_source)]
            /\ cc' = [cc EXCEPT !.pc = "returned", !.workdir = "removed", !.scratch = {}]
    /\ UNCHANGED <<docVars, versions, chunks_fts, now, job, web, index_text, rerun, view, llm, tmp, models>>

InitCompile ==
    /\ status = "processing"
    /\ last_error = <<>>
    /\ editor_open = TRUE
    /\ editor_heartbeat_at = <<0>>
    /\ now = 0
    /\ extracted_text = PdfText
    /\ versions = {}
    /\ files \in {[p \in Paths |-> IF p = OutPdf THEN f ELSE <<>>] :
                     f \in {<<>>, PdfOf(make_full_tex(<<>>, FALSE))}}
    /\ chunks_fts = [k \in Kinds |->
                        IF k = "original" THEN chunk_text(extracted_text, MaxChars) ELSE <<>>]
    /\ job = [j \in Jobs |-> IdleJob]
    /\ web = "idle"
    /\ index_text = <<>>
    /\ rerun = NoRerun
    /\ view = <<>>
    /\ llm = NoCall
    /\ \E toc \in BOOLEAN, max_runs \in LatexMaxRuns :
          cc = [NoCompile EXCEPT
                   !.pc = "start", !.toc = toc, !.max_runs = max_runs,
                   !.tex_source = make_full_tex(extract_body(CHOOSE t \in LlmOutputs : TRUE), toc),
                   !.dest_before = files[OutPdf]]
    /\ tmp = NoScratch
    /\ models = NoModels

NextCompile == CompileBegin \/ CompilePass \/ CompileCrash \/ CompileFinish

SpecCompile == InitCompile /\ [][NextCompile]_vars

-----------------------------------------------------------------------------
(* Compile calls one after another, with a call of another worker beside them *)

\* the caller compiles again once its call has returned or raised
CompileAgain ==
    /\ cc.pc \in {"returned", "raised"}
    /\ uuid4(tmp) # {}
    /\ \E toc \in BOOLEAN :
          cc' = [NoCompile EXCEPT
                    !.pc = "start", !.toc = toc, !.max_runs = cc.max_runs,
                    !.tex_source = make_full_tex(extract_body(CHOOSE t \in LlmOutputs : TRUE), toc),
                    !.dest_before = files[OutPdf]]
    /\ UNCHANGED <<docVars, storeVars, now, job, web, index_text, rerun, view, llm, tmp, models>>

\* another worker's call of compile_tex_to_pdf makes its scratch directory (latex.py:16-19)
OtherBegin ==
    /\ tmp.other = <<>>
    /\ \E d \in uuid4(tmp) :
          tmp' = [tmp EXCEPT !.names = Append(@, d), !.other = <<d>>]
    /\ UNCHANGED <<docVars, storeVars, now, job, web, index_text, rerun, view, llm, cc, models>>

\* the other call returns or raises: its finally clause (latex.py:60-61)
OtherEnd ==
    /\ tmp.other # <<>>
    /\ tmp' = [tmp EXCEPT !.other = <<>>]
    /\ UNCHANGED <<docVars, storeVars, now, job, web, index_text, rerun, view, llm, cc, models>>

NextScratch == NextCompile \/ CompileAgain \/ OtherBegin \/ OtherEnd

SpecScratch == InitCompile /\ [][NextScratch]_vars

-----------------------------------------------------------------------------
(* The model catalogue: _get_models and pick_models (llm.py) *)

\* the lifetime of _MODELS_CACHE in seconds
CacheTtl == 300

\* the ids of the provider's models, as pieces of text; an entry whose id is
\* not a string has NoneId
ModelIds == {<<"deepseek/deepseek-chat", "-v3">>, <<"mistralai/mistral", "-small">>}
NoneId == <<>>

\* the ids in the order of Python's string comparison
IdRank(mid) == IF mid = <<"deepseek/deepseek-chat", "-v3">> THEN 1 ELSE 2

\* an entry of GET /models: endpoints is <<>> when the entry has no list of
\* endpoints and <<n>> for a list of n endpoints
CatalogEntries ==
    [id : ModelIds, endpoints : {<<>>, <<0>>, <<1>>}, top_provider : BOOLEAN]
    \cup {[id |-> NoneId, endpoints |-> <<>>, top_provider |-> FALSE]}

\* the longest catalogue
MaxCatalog == 3

Catalogs == UNION {[1..n -> CatalogEntries] : n \in 0..MaxCatalog}

\* the default preference list of pick_models
DefaultPrefer ==
    << <<"deepseek/deepseek-chat">>, <<"deepseek/deepseek-r1">>, <<"openai/gpt-4o-mini">>,
       <<"google/gemini">>, <<"anthropic/claude">> >>

\* the limits pick_models is called with
Limits == {1, PickLimit}

cache_fresh_inclusive(c, t) == c # <<>> /\ t - c[1].at <= CacheTtl

\* _MODELS_CACHE and now - _MODELS_CACHE[0] < 300
cache_fresh(c, t) == c # <<>> /\ t - c[1].at < CacheTtl

endpoints_count(m) == IF m.endpoints # <<>> THEN m.endpoints[1] ELSE 1

startswith(x, pre) == Len(x) >= Len(pre) /\ SubSeq(x, 1, Len(pre)) = pre

\* the score of one entry: the first prefix of prefer that matches, the bonus
score_of(m, prefer) ==
    LET hits == {i \in 1..Len(prefer) : startswith(m.id, prefer[i])}
        base == IF hits = {} THEN 0 ELSE 1000 - (Min(hits) - 1) * 10
    IN  base + (IF m.top_provider THEN 3 ELSE 0)

IsString(m) == m.id # NoneId
Usable(m) == IsString(m) /\ endpoints_count(m) > 0

\* ids = [m.get("id") for m in models if isinstance(m.get("id"), str)]
ids_of(ms) ==
    LET named == SelectSeq(ms, IsString)
    IN  [i \in 1..Len(named) |-> named[i].id]

\* the list scored before it is sorted
scored_of(ms, prefer) ==
    LET kept == SelectSeq(ms, Usable)
    IN  [i \in 1..Len(kept) |-> <<score_of(kept[i], prefer), kept[i].id>>]

\* the order of the tuples (score, mid)
TupleGreater(a, b) == a[1] > b[1] \/ (a[1] = b[1] /\ IdRank(a[2]) > IdRank(b[2]))

\* scored.sort(reverse=True)
RECURSIVE sort_reverse(_)
sort_reverse(sc) ==
    IF sc = <<>> THEN <<>>
    ELSE LET top == CHOOSE i \in 1..Len(sc) :
                        \A k \in 1..Len(sc) : ~TupleGreater(sc[k], sc[i])
             rest == [k \in 1..(Len(sc) - 1) |-> IF k < top THEN sc[k] ELSE sc[k + 1]]
         IN  <<sc[top]>> \o sort_reverse(rest)

\* the loop over the sorted list: skip an id already seen, stop at limit
RECURSIVE choose_from(_, _, _)
choose_from(sc, chosen, limit) ==
    IF sc = <<>> THEN chosen
    ELSE IF \E k \in 1..Len(chosen) : chosen[k] = sc[1][2]
    THEN choose_from(Tail(sc), chosen, limit)
    ELSE IF Len(chosen) + 1 >= limit
    THEN Append(chosen, sc[1][2])
    ELSE choose_from(Tail(sc), Append(chosen, sc[1][2]), limit)

\* pick_models on the list _get_models returned
pick_models(ms, prefer, limit) ==
    LET ids == ids_of(ms)
        chosen == choose_from(sort_reverse(scored_of(ms, prefer)), <<>>, limit)
    IN  IF chosen = <<>> /\ ids # <<>>
        THEN SubSeq(ids, 1, Min({Len(ids), limit}))
        ELSE chosen

\* a lookup that finds the cache fresh: no request (llm.py:15-17)
GetModelsCached ==
    /\ cache_fresh(models.cache, now)
    /\ models' = [models EXCEPT
                     !.ret = [kind |-> "cached", data |-> models.cache[1].data, at |-> now]]
    /\ UNCHANGED <<docVars, storeVars, now, job, web, index_text, rerun, view, llm, cc, tmp>>

\* the longest run of requests
MaxRequests == 3

\* a lookup that asks the provider and stores the answer (llm.py:19-24)
GetModelsFetch ==
    /\ ~cache_fresh(models.cache, now)
    /\ models.requests < MaxRequests
    /\ models' = [models EXCEPT
                     !.cache = <<[at |-> now, data |-> models.remote]>>,
                     !.requests = @ + 1,
                     !.ret = [kind |-> "fetched", data |-> models.remote, at |-> now]]
    /\ UNCHANGED <<docVars, storeVars, now, job, web, index_text, rerun, view, llm, cc, tmp>>

\* a lookup whose request fails: raise_for_status or r.json() raises (llm.py:20-22)
GetModelsRaise ==
    /\ ~cache_fresh(models.cache, now)
    /\ models.requests < MaxRequests
    /\ models' = [models EXCEPT
                     !.requests = @ + 1,
                     !.ret = [kind |-> "raised", data |-> <<>>, at |-> now]]
    /\ UNCHANGED <<docVars, storeVars, now, job, web, index_text, rerun, view, llm, cc, tmp>>

\* pick_models whose lookup returns: the first call of the process (llm.py:32-71)
PickModels ==
    /\ models.picked = <<>>
    /\ models.ret.kind = "none"
    /\ \E limit \in Limits :
          models' = [models EXCEPT
                        !.cache = <<[at |-> now, data |-> models.remote]>>,
                        !.requests = @ + 1,
                        !.ret = [kind |-> "fetched", data |-> models.remote, at |-> now],
                        !.limit = limit,
                        !.picked = <<pick_models(models.remote, DefaultPrefer, limit)>>]
    /\ UNCHANGED <<docVars, storeVars, now, job, web, index_text, rerun, view, llm, cc, tmp>>

\* pick_models whose lookup raises
PickModelsRaise ==
    /\ models.picked = <<>>
    /\ models.ret.kind = "none"
    /\ models' = [models EXCEPT
                     !.requests = @ + 1,
                     !.ret = [kind |-> "raised", data |-> <<>>, at |-> now]]
    /\ UNCHANGED <<docVars, storeVars, now, job, web, index_text, rerun, view, llm, cc, tmp>>

\* a fresh process and the provider's catalogue
InitPick ==
    /\ status = "processing"
    /\ last_error = <<>>
    /\ editor_open = TRUE
    /\ editor_heartbeat_at = <<0>>
    /\ now = 0
    /\ extracted_text = PdfText
    /\ versions = {}
    /\ files = [p \in Paths |-> <<>>]
    /\ chunks_fts = [k \in Kinds |->
                        IF k = "original" THEN chunk_text(extracted_text, MaxChars) ELSE <<>>]
    /\ job = [j \in Jobs |-> IdleJob]
    /\ web = "idle"
    /\ index_text = <<>>
    /\ rerun = NoRerun
    /\ view = <<>>
    /\ llm = NoCall
    /\ cc = NoCompile
    /\ tmp = NoScratch
    /\ \E remote \in Catalogs : models = [NoModels EXCEPT !.remote = remote]

NextPick == PickModels \/ PickModelsRaise

SpecPick == InitPick /\ [][NextPick]_vars

-----------------------------------------------------------------------------
(* Lookups of the catalogue over time: _MODELS_CACHE and its 300 seconds *)

\* the readings of time.time(): around one and two lifetimes of the cache
ClockPoints ==
    {0, CacheTtl - 1, CacheTtl, CacheTtl + 1, 2 * CacheTtl - 1, 2 * CacheTtl, 2 * CacheTtl + 1}

\* what GET /models answers: no data key, one entry, two entries
RemoteLists ==
    {<<>>,
     <<[id |-> <<"deepseek/deepseek-chat", "-v3">>, endpoints |-> <<1>>, top_provider |-> TRUE]>>,
     <<[id |-> <<"mistralai/mistral", "-small">>, endpoints |-> <<>>, top_provider |-> FALSE],
       [id |-> <<"deepseek/deepseek-chat", "-v3">>, endpoints |-> <<0>>, top_provider |-> FALSE]>>}

\* time passes between two lookups
ClockAdvance ==
    /\ \E t \in ClockPoints : t > now /\ now' = t
    /\ UNCHANGED <<docVars, storeVars, job, web, index_text, rerun, view, llm, cc, tmp, models>>

\* the provider changes its catalogue
ProviderChanges ==
    /\ \E r \in RemoteLists \ {models.remote} : models' = [models EXCEPT !.remote = r]
    /\ UNCHANGED <<docVars, storeVars, now, job, web, index_text, rerun, view, llm, cc, tmp>>

InitCache ==
    /\ status = "processing"
    /\ last_error = <<>>
    /\ editor_open = TRUE
    /\ editor_heartbeat_at = <<0>>
    /\ now = 0
    /\ extracted_text = PdfText
    /\ versions = {}
    /\ files = [p \in Paths |-> <<>>]
    /\ chunks_fts = [k \in Kinds |->
                        IF k = "original" THEN chunk_text(extracted_text, MaxChars) ELSE <<>>]
    /\ job = [j \in Jobs |-> IdleJob]
    /\ web = "idle"
    /\ index_text = <<>>
    /\ rerun = NoRerun
    /\ view = <<>>
    /\ llm = NoCall
    /\ cc = NoCompile
    /\ tmp = NoScratch
    /\ \E r \in RemoteLists : models = [NoModels EXCEPT !.remote = r]

NextCache ==
    GetModelsCached \/ GetModelsFetch \/ GetModelsRaise \/ ClockAdvance \/ ProviderChanges

SpecCache == InitCache /\ [][NextCache]_vars

-----------------------------------------------------------------------------
(* Properties *)

DraftRows == RowsOfKind(versions, "draft")
SavedRows == RowsOfKind(versions, "saved")

\* C1: in every reachable state, whatever the interleaving of the jobs and the
\* requests on the document, there is at most one draft row and at most one
\* saved row
C1_OneRowPerKind ==
    /\ Cardinality(DraftRows) <= 1
    /\ Cardinality(SavedRows) <= 1

\* two jobs are about to persist a draft while a draft row and a saved row exist
C1_Witness ==
    /\ \A j \in Jobs : job[j].pc = "persist"
    /\ DraftRows # {}
    /\ SavedRows # {}

\* C2: when promote_draft_to_saved runs on a document with a draft row, it
\* leaves exactly one saved row and no draft row; the saved row is the former
\* draft row relabelled (same id, same source, same plain text); a prior saved
\* row is deleted and its artifact no longer exists (the saved path holds the
\* promoted draft's artifact or nothing)
C2_PromoteExclusive ==
    [][ (SavePromote /\ DraftRows # {}) =>
          LET draft == First(DraftRows)
          IN  /\ Cardinality(RowsOfKind(versions', "saved")) = 1
              /\ RowsOfKind(versions', "draft") = {}
              /\ \E v \in versions' :
                    /\ v.kind = "saved"
                    /\ v.id = draft.id
                    /\ v.tex_source = draft.tex_source
                    /\ v.plain_text = draft.plain_text
              /\ \A old \in SavedRows :
                    /\ old \notin versions'
                    /\ \A v \in versions' : v.id # old.id
                    /\ files'[old.pdf_path] \in {<<>>, files[draft.pdf_path]}
      ]_vars

\* a promotion has evicted a prior saved row: the saved row is the second row
\* the table created
C2_Witness ==
    /\ \E v \in SavedRows : v.id = 2
    /\ DraftRows = {}
    /\ files[generated_pdf_path("saved")] # <<>>

\* C3: when a transform job takes its persist step while the editor is closed,
\* has no heartbeat, or has a heartbeat of 120 s or older, no Version row is
\* created or altered, the draft index is left as it is, and status becomes ready
C3_StaleEditorWritesNothing ==
    [][ \A j \in Jobs :
          (/\ TransformPersist(j)
           /\ \/ ~editor_open
              \/ editor_heartbeat_at = <<>>
              \/ now - editor_heartbeat_at[1] >= 120)
          => /\ versions' = versions
             /\ chunks_fts' = chunks_fts
             /\ status' = "ready"
      ]_vars

\* a transform job is at its persist step, the editor is open with a heartbeat
\* 200 s old, and a draft row exists that the job must not alter
C3_Witness ==
    /\ \E j \in Jobs : At(j, "transform_tex_task", "persist")
    /\ editor_open
    /\ editor_heartbeat_at # <<>>
    /\ now - editor_heartbeat_at[1] = 200
    /\ DraftRows # {}

\* C4: a transform job calls the compiler at most twice and the rewrite service
\* at most twice; the repair call and the second compile come only after the
\* first compile raised LatexCompileError; no compile follows a second failure
C4_CompileRetryBound ==
    \A j \in Jobs :
        job[j].func = "transform_tex_task" =>
            /\ job[j].compiles <= 2
            /\ job[j].llm_calls <= 2
            /\ (job[j].llm_calls = 2 \/ job[j].compiles = 2
                    \/ job[j].pc \in {"repair", "recompile"})
                 => (job[j].ce = CompileDiagnostic /\ job[j].compiles >= 1)
            /\ job[j].compiles = 2 => job[j].llm_calls = 2

\* the second compile has failed: the job is in its except block after two
\* compiles and two rewrite calls
C4_Witness ==
    \E j \in Jobs :
        /\ At(j, "transform_tex_task", "except")
        /\ job[j].compiles = 2
        /\ job[j].llm_calls = 2
        /\ job[j].err = CompileDiagnostic

\* C5: whenever the except block of a job (ingest, transform or normalize) has
\* run, status is error, last_error holds a non-empty message, and the job
\* function has raised, so that the queue records the job as failed
C5_ErrorCommittedAndReraised ==
    [][ \A j \in Jobs :
          (job[j].pc = "except" /\ job'[j] # job[j])
          => /\ status' = "error"
             /\ last_error' # <<>>
             /\ last_error'[1] # ""
             /\ job'[j].pc = "failed"
      ]_vars

\* C6: the first step of every job commits status=processing with last_error
\* None, and the step with which a job returns without an exception commits
\* status=ready with last_error None
C6_ProcessingThenReady ==
    [][ \A j \in Jobs :
          /\ (job[j].pc = "queued" /\ job'[j].pc # "queued")
                => (status' = "processing" /\ last_error' = <<>>)
          /\ (job[j].pc \notin {"idle", "failed", "queued", "except"} /\ job'[j].pc = "idle")
                => (status' = "ready" /\ last_error' = <<>>)
      ]_vars

\* C7: in every reachable state the index entries of the original kind are the
\* chunking of the cached extracted text, and the index entries of the draft
\* and of the saved kind are the chunking of the plain text of that row
C7_IndexMatchesText ==
    /\ chunks_fts["original"] = chunk_text(extracted_text, MaxChars)
    /\ \A kind \in {"draft", "saved"} :
          \A v \in RowsOfKind(versions, kind) :
             chunks_fts[kind] = chunk_text(v.plain_text, MaxChars)

CeilDiv(a, b) == (a + b - 1) \div b

\* rows is t cut into pieces of max_chars characters, the last one possibly shorter
ChunkingOf(rows, t, max_chars) ==
    /\ Len(rows) = CeilDiv(Len(t), max_chars)
    /\ \A i \in 1..Len(rows) :
          /\ i < Len(rows) => Len(rows[i]) = max_chars
          /\ Len(rows[i]) \in 1..max_chars
    /\ Concat(rows) = t

\* C8 as stated: rebuilding the index of a kind from a text of length L leaves
\* ceil(L/1000) chunks, each of 1000 characters except possibly the last, whose
\* concatenation is the text itself
C8_ChunkingOfText ==
    [][ \A kind \in Kinds :
          IndexRebuild(kind) => ChunkingOf(chunks_fts'[kind], index_text, 1000)
      ]_vars

\* C8 amended: rebuilding the index of a kind from a text leaves the chunking
\* of the text with its leading and trailing whitespace stripped: ceil(L/1000)
\* chunks for the stripped length L, each of 1000 characters except possibly
\* the last, whose concatenation is the stripped text
C8_ChunkingOfStrippedText ==
    [][ \A kind \in Kinds :
          IndexRebuild(kind) => ChunkingOf(chunks_fts'[kind], Strip(index_text), 1000)
      ]_vars

\* a text of 1001 characters that ends in a blank has been indexed as a single
\* chunk of 1000 characters
C8_Witness ==
    /\ Len(index_text) = 1001
    /\ index_text[1001] = " "
    /\ \E kind \in Kinds :
          /\ Len(chunks_fts[kind]) = 1
          /\ Len(chunks_fts[kind][1]) = 1000

\* the call sites of discard_draft: /cancel, /close and the reaper
DiscardCall == CancelChanges \/ CloseDiscard \/ ReaperDiscard

\* what discard_draft must leave alone whether or not a draft row exists
DiscardFrame ==
    /\ status' = status
    /\ editor_open' = editor_open
    /\ editor_heartbeat_at' = editor_heartbeat_at
    /\ RowsOfKind(versions', "saved") = SavedRows
    /\ files'[generated_pdf_path("saved")] = files[generated_pdf_path("saved")]
    /\ chunks_fts'["saved"] = chunks_fts["saved"]
    /\ chunks_fts'["original"] = chunks_fts["original"]

\* C9: discard_draft on a document without a draft row leaves status,
\* last_error, the editor flags, the rows, the saved artifact and the saved and
\* original index entries as they are; and after any discard a second discard
\* changes nothing
C9_DiscardWithoutDraft ==
    [][ DiscardCall =>
          /\ DraftRows = {} =>
                /\ DiscardFrame
                /\ last_error' = last_error
                /\ versions' = versions
          /\ discard_versions(versions') = versions'
          /\ discard_files(files', versions') = files'
          /\ discard_fts(chunks_fts') = chunks_fts'
      ]_vars

\* /close is about to call discard_draft on a document that has a saved
\* version with its artifact and index entries, and no draft row
C9_Witness ==
    /\ web = "close_discard"
    /\ DraftRows = {}
    /\ SavedRows # {}
    /\ files[generated_pdf_path("saved")] # <<>>
    /\ chunks_fts["saved"] # <<>>

\* C10: discard_draft on a document with a draft row removes the row, its
\* artifact and every draft index entry, and leaves the saved row, the saved
\* artifact, the saved and original index entries, status and the editor flags
\* as they are
C10_DiscardWithDraft ==
    [][ (DiscardCall /\ DraftRows # {}) =>
          /\ RowsOfKind(versions', "draft") = {}
          /\ \A v \in DraftRows : files'[v.pdf_path] = <<>>
          /\ files'[generated_pdf_path("draft")] = <<>>
          /\ chunks_fts'["draft"] = <<>>
          /\ DiscardFrame
      ]_vars

\* /close is about to call discard_draft on a document that has a draft row
\* with its artifact and index entries beside a saved version
C10_Witness ==
    /\ web = "close_discard"
    /\ DraftRows # {}
    /\ files[generated_pdf_path("draft")] # <<>>
    /\ chunks_fts["draft"] # <<>>
    /\ SavedRows # {}
    /\ chunks_fts["saved"] # <<>>

\* the editor is active: open, with a heartbeat younger than 120 s
EditorIsActive ==
    /\ editor_open
    /\ editor_heartbeat_at # <<>>
    /\ now - editor_heartbeat_at[1] < 120

\* C11: when a transform or normalize job takes its persist step with the
\* editor active, the one draft row afterwards holds this job's full source,
\* the draft artifact path and the plain text derived from that source,
\* whether or not a draft row existed before
C11_PersistReplacesDraft ==
    [][ \A j \in Jobs :
          ((TransformPersist(j) \/ NormalizePersist(j)) /\ EditorIsActive)
          => /\ Cardinality(RowsOfKind(versions', "draft")) = 1
             /\ \A v \in RowsOfKind(versions', "draft") :
                   /\ v.tex_source = job[j].full_tex
                   /\ v.pdf_path = generated_pdf_path("draft")
                   /\ v.plain_text = tex_to_text(job[j].full_tex)
      ]_vars

\* a job is about to persist with the editor active over a draft row whose
\* source and plain text both differ from the job's
C11_Witness ==
    /\ EditorIsActive
    /\ \E j \in Jobs :
          /\ job[j].pc = "persist"
          /\ \E v \in DraftRows :
                /\ v.tex_source # job[j].full_tex
                /\ v.plain_text # tex_to_text(job[j].full_tex)

\* C12: when promote_draft_to_saved runs on a document with a draft row and
\* leaves no artifact at the saved path (the copy failed or the draft artifact
\* was missing), it still relabels the draft row to saved and commits
\* status=ready without an error
C12_PromoteSurvivesCopyFailure ==
    [][ (SavePromote /\ DraftRows # {} /\ files'[generated_pdf_path("saved")] = <<>>)
          => /\ \E v \in versions' :
                   /\ v.kind = "saved"
                   /\ v.id = First(DraftRows).id
                   /\ v.pdf_path = generated_pdf_path("saved")
             /\ RowsOfKind(versions', "draft") = {}
             /\ status' = "ready"
             /\ last_error' = <<>>
             /\ web' = "idle"
      ]_vars

\* a saved row whose artifact file does not exist
C12_Witness ==
    \E v \in SavedRows : files[v.pdf_path] = <<>>

\* C13: promote_draft_to_saved on a document without a draft row changes no
\* document field, no row, no file and no index entry; and after any promotion
\* no draft row is left, so that a second promotion is this no-op
C13_PromoteWithoutDraft ==
    [][ SavePromote =>
          /\ DraftRows = {} =>
                /\ UNCHANGED <<status, last_error, editor_open, editor_heartbeat_at,
                               extracted_text>>
                /\ versions' = versions
                /\ files' = files
                /\ chunks_fts' = chunks_fts
          /\ RowsOfKind(versions', "draft") = {}
      ]_vars

\* /save is about to call promote_draft_to_saved after the draft row was
\* discarded, on a document that has a saved version and is being processed
C13_Witness ==
    /\ web = "save_promote"
    /\ DraftRows = {}
    /\ SavedRows # {}
    /\ files[generated_pdf_path("saved")] # <<>>
    /\ chunks_fts["saved"] # <<>>
    /\ status = "processing"

\* open, heartbeat present, and now minus heartbeat strictly less than 120
OpenAndFresh ==
    /\ editor_open
    /\ editor_heartbeat_at # <<>>
    /\ now - editor_heartbeat_at[1] < 120

\* C14: the liveness predicate of the jobs is true exactly when editor_open
\* holds, a heartbeat is present and its age is strictly less than 120 s; and
\* the jobs act on it: a persist step writes the draft row exactly then, and
\* the check of the normalize job lets the job go on exactly then
C14_ActiveIffOpenAndFresh ==
    [][ \A j \in Jobs :
          /\ editor_active(editor_open, editor_heartbeat_at, now) <=> OpenAndFresh
          /\ (TransformPersist(j) \/ NormalizePersist(j))
                => (RowsOfKind(versions', "draft") # {} <=> OpenAndFresh)
          /\ NormalizeCheck(j) => (job'[j].pc # "idle" <=> OpenAndFresh)
      ]_vars

\* with a heartbeat 119 s old a persist step has written the draft row
C14_Witness ==
    /\ editor_open
    /\ editor_heartbeat_at # <<>>
    /\ now - editor_heartbeat_at[1] = 119
    /\ DraftRows # {}
    /\ \A j \in Jobs : job[j].pc = "idle"

\* C15: the reaper acts on the document only when its editor is open with a
\* heartbeat older than 120 s, leaving an open editor within the threshold and
\* its draft alone; and when the run that reaped the document ends, the
\* document has editor_open false and no draft row
C15_ReaperClosesAndDiscards ==
    [][ /\ ReaperDiscard =>
              /\ editor_open
              /\ editor_heartbeat_at # <<>>
              /\ now - editor_heartbeat_at[1] > 120
              /\ RowsOfKind(versions', "draft") = {}
        /\ ReaperCommit =>
              /\ editor_open' = FALSE
              /\ RowsOfKind(versions', "draft") = {}
      ]_vars

\* the result a job at its persist step carries: source, artifact path, plain text
ResultOf(j) ==
    <<job[j].full_tex, generated_pdf_path("draft"), tex_to_text(job[j].full_tex)>>

C17_RerunIdempotent ==
    (/\ rerun.first # <<>>
     /\ SlotFree("j1")
     /\ status = rerun.first[1].status
     /\ last_error = rerun.first[1].last_error)
    => /\ Observed = rerun.first[1]
       /\ Cardinality(DraftRows) <= 1
       /\ Cardinality(SavedRows) <= 1

\* the second execution of a normalize job has returned, leaving the draft row
\* over a document that also has a saved version
C17_Witness ==
    /\ rerun.func = "normalize_original_task"
    /\ rerun.first # <<>>
    /\ job["j1"].pc = "idle"
    /\ status = "ready"
    /\ DraftRows # {}
    /\ SavedRows # {}
    /\ \E v \in DraftRows : v.plain_text = PdfText

\* the preference order: draft while the status is queued or processing or a
\* draft row exists, else saved if a saved row exists, else original
Preferred ==
    IF status \in {"queued", "processing"} \/ DraftRows # {} THEN "draft"
    ELSE IF SavedRows # {} THEN "saved"
    ELSE "original"

\* C18: a GET /doc/{id} without a kind resolves to draft if the status is
\* queued or processing or a draft row exists, otherwise to saved if a saved
\* row exists, otherwise to original
C18_DefaultView ==
    [][ ViewRequest("") => view'[1].effective_v = Preferred ]_vars

\* a request without a kind on a ready document with a saved row and no draft
\* row has resolved to saved
C18_Witness ==
    /\ view # <<>>
    /\ view[1].v = ""
    /\ view[1].effective_v = "saved"
    /\ status = "ready"
    /\ DraftRows = {}
    /\ SavedRows # {}

\* C19: a GET /doc/{id} naming draft or saved while no row of that kind exists
\* is answered with a redirect or the page, never an error, and resolves by
\* the preference order, for every status and every combination of rows
C19_UnavailableKindDegrades ==
    [][ \A v \in {"draft", "saved"} :
          (ViewRequest(v) /\ RowsOfKind(versions, v) = {})
          => /\ view'[1].response \in {"303", "page"}
             /\ view'[1].effective_v = Preferred
      ]_vars

\* a request for the draft of a ready document that has only a saved row has
\* been redirected to saved
C19_Witness ==
    /\ view # <<>>
    /\ view[1].v = "draft"
    /\ view[1].effective_v = "saved"
    /\ view[1].response = "303"
    /\ DraftRows = {}
    /\ status = "ready"

\* C20: a rewrite call posts to the candidates in list order without skipping
\* or repeating one, posts at most 6 times, returns at its first successful
\* post the output of that candidate with that candidate's id, and posts
\* nothing after a success
C20_FallbackLoop ==
    /\ [](/\ Len(llm.posted) <= 6
          /\ Len(llm.posted) <= Len(llm.model_candidates)
          /\ llm.posted = SubSeq(llm.model_candidates, 1, Len(llm.posted))
          /\ llm.pc = "returned"
             => /\ llm.posted # <<>>
                /\ llm.mid = <<llm.posted[Len(llm.posted)]>>
                /\ llm.out[1].model = llm.mid[1])
    /\ [][ /\ llm.pc = "returned" => llm'.posted = llm.posted
           /\ llm'.pc = "returned" => llm'.posted = Append(llm.posted, llm'.mid[1])
         ]_vars

\* the first five of eight candidates failed and the sixth answered: the call
\* returned the sixth candidate's output and id
C20_Witness ==
    /\ llm.pc = "returned"
    /\ Len(llm.model_candidates) = 8
    /\ Len(llm.posted) = 6
    /\ llm.mid = <<llm.model_candidates[6]>>
    /\ llm.out[1].model = llm.model_candidates[6]
    /\ llm.model_candidates[1] > llm.model_candidates[2]

\* C21: a completion attempt that fails, with a no-endpoints error or with any
\* other error, is followed by the next candidate; the call raises out of the
\* loop only after every candidate it may try has failed, and then with the
\* message of the last failed attempt
C21_FailureContinues ==
    /\ [](/\ llm.pc = "loop" => llm.i = Len(llm.posted) + 1
          /\ (llm.pc = "raised" /\ llm.posted # <<>>)
             => /\ llm.out = <<>>
                /\ Len(llm.failures) = Len(llm.posted)
                /\ llm.posted = SubSeq(llm.model_candidates, 1,
                                       Min({Len(llm.model_candidates), MaxAttempts}))
                /\ llm.err = llm.failures[Len(llm.failures)])
    /\ [][ (llm.pc = "loop" /\ Len(llm'.failures) = Len(llm.failures) + 1)
           => /\ llm'.pc = "loop"
              /\ llm'.i = llm.i + 1
              /\ llm'.posted = Append(llm.posted, llm.model_candidates[llm.i])
         ]_vars

\* three candidates failed, the second with an error other than a missing
\* endpoint, and the call raised the third one's message
C21_Witness ==
    /\ llm.pc = "raised"
    /\ Len(llm.model_candidates) = 3
    /\ Len(llm.posted) = 3
    /\ llm.failures = <<NoEndpointsError, OtherChatError, NoEndpointsError>>
    /\ llm.err = NoEndpointsError

\* C22: the step in which an ingest job succeeds leaves the status ready, the
\* extracted text on the document and, in the original-kind index, exactly the
\* chunks of that text: for a text shorter than a chunk, one chunk that is the text
C22_IngestSuccess ==
    [][ \A j \in Jobs :
          (IngestWork(j) /\ job'[j] = Returned)
          => /\ status' = "ready"
             /\ extracted_text' = PdfText
             /\ chunks_fts'["original"] = chunk_text(extracted_text', MaxChars)
             /\ chunks_fts'["original"] = <<PdfText>>
      ]_vars

\* the ingest job of a fresh upload has returned: ready, text cached, one chunk
C22_Witness ==
    /\ job["j1"] = Returned
    /\ status = "ready"
    /\ extracted_text = PdfText
    /\ Len(chunks_fts["original"]) = 1
    /\ chunks_fts["original"][1] = PdfText
    /\ versions = {}

\* no close request, reaper run or job is between two of its steps
Quiescent ==
    /\ web = "idle"
    /\ \A j \in Jobs : job[j].pc \in {"idle", "failed"}

\* C23: once every close request, reaper run and job on the document has
\* completed, a document whose editor_open flag is false has no draft row
C23_ClosedEditorHasNoDraft ==
    (Quiescent /\ ~editor_open) => DraftRows = {}

\* no job of the document is between its first and its last step
NoJobRunning == \A j \in Jobs : job[j].pc \in {"idle", "failed", "queued"}

\* C24: whenever a draft row exists and no job is mid-execution, the file at
\* the draft path is the one compiled from the row's source text
C24_DraftFileMatchesRow ==
    (DraftRows # {} /\ NoJobRunning)
    => \A v \in DraftRows : files[v.pdf_path] = <<v.tex_source>>

\* C25: in every state between operations, index entries of kind draft exist
\* only if the document has a draft row; none remains after the draft has
\* been promoted to saved or discarded
C25_DraftIndexOnlyWithDraftRow ==
    chunks_fts["draft"] # <<>> => DraftRows # {}

DraftJobs == {"transform_tex_task", "normalize_original_task"}

\* the draft row, the saved row, the draft artifact and the index entries of
\* kind draft and saved
Versioned ==
    <<versions, files[generated_pdf_path("draft")], chunks_fts["draft"], chunks_fts["saved"]>>

\* C26: a transform or normalize job that ends with status=error has left the
\* draft row, the saved row, the draft artifact and the draft and saved index
\* entries as they were: a step of the job that changes one of them puts the
\* job at its persist step or returns with status ready, the persist step
\* always returns with status ready, and the step that commits status=error
\* changes none of them
C26_ErrorLeavesVersions ==
    [][ \A j \in Jobs :
          (job[j].func \in DraftJobs /\ job'[j] # job[j])
          => /\ Versioned' # Versioned
                => \/ job'[j].pc = "persist"
                   \/ job'[j] = Returned /\ status' = "ready"
             /\ job[j].pc = "persist" => (job'[j] = Returned /\ status' = "ready")
             /\ job'[j].pc = "except" => Versioned' = Versioned
             /\ job[j].pc = "except"
                => /\ status' = "error"
                   /\ job'[j] = Raised
                   /\ Versioned' = Versioned
      ]_vars

\* a transform job whose repaired source failed to compile has ended in error
\* on a document that has a draft row with its artifact and index entries
C26_Witness ==
    /\ job["j1"] = Raised
    /\ status = "error"
    /\ last_error = <<CompileDiagnostic>>
    /\ \E v \in DraftRows : files[v.pdf_path] = <<v.tex_source>>
    /\ chunks_fts["draft"] # <<>>

\* the saved row, the saved artifact and the index entries of kind saved
SavedState ==
    <<SavedRows, files[generated_pdf_path("saved")], chunks_fts["saved"]>>

C28_FailedPassAborts ==
    /\ [](/\ \A k \in 1..(Len(cc.passes) - 1) : cc.passes[k].code = 0
          /\ (cc.passes # <<>> /\ cc.passes[Len(cc.passes)].code # 0)
             => /\ cc.pc = "raised"
                /\ cc.exc = <<[type |-> "LatexCompileError",
                               msg |-> <<cc.passes[Len(cc.passes)].out>>]>>)
    /\ [][ cc.pc = "raised" => cc'.passes = cc.passes ]_vars

\* the first of two scheduled passes failed: the call raised with its output
\* after that one pass
C28_Witness ==
    /\ cc.pc = "raised"
    /\ cc.toc
    /\ cc.runs = 2
    /\ Len(cc.passes) = 1
    /\ cc.passes[1] = [code |-> 1, out |-> CompileDiagnostic]
    /\ cc.exc[1].msg = <<CompileDiagnostic>>

\* every scheduled pass of the call has exited with code 0
AllPassesClean ==
    /\ Len(cc.passes) = cc.runs
    /\ \A k \in 1..Len(cc.passes) : cc.passes[k].code = 0

\* C29: when every pass exited with code 0 and main.pdf is not in the scratch
\* directory, the call raises CompileError instead of returning, and writes
\* nothing to the destination
C29_MissingArtifactRaises ==
    [][ (cc.pc = "pass" /\ AllPassesClean /\ "main.pdf" \notin cc.scratch /\ cc' # cc)
        => /\ cc'.pc = "raised"
           /\ cc'.exc[1].type = "LatexCompileError"
           /\ files' = files
           /\ files'[OutPdf] = cc.dest_before
      ]_vars

\* two clean passes produced no main.pdf: the call raised and the older
\* artifact at the destination is still there
C29_Witness ==
    /\ cc.pc = "raised"
    /\ cc.runs = 2
    /\ AllPassesClean
    /\ cc.exc[1].type = "LatexCompileError"
    /\ cc.exc[1].msg[1] = "PDF not produced. Output:"
    /\ cc.dest_before # <<>>
    /\ files[OutPdf] = cc.dest_before

\* C30: a compile call that raises CompileError leaves the destination path as
\* it was before the call: an existing file keeps its content, and no new or
\* partial file is created
C30_CompileErrorLeavesDestination ==
    (cc.pc = "raised" /\ cc.exc[1].type = "LatexCompileError")
    => files[OutPdf] = cc.dest_before

\* the second pass failed after a clean first pass that had produced main.pdf,
\* and there is still no file at the destination
C30_Witness ==
    /\ cc.pc = "raised"
    /\ cc.exc[1].type = "LatexCompileError"
    /\ Len(cc.passes) = 2
    /\ cc.passes[1].code = 0
    /\ cc.passes[2].code # 0
    /\ cc.dest_before = <<>>
    /\ files[OutPdf] = <<>>

\* min(r, m): r is 2 with a table of contents and 1 without, m is
\* LATEX_MAX_RUNS clamped into [1,5]
ScheduledPasses ==
    LET r == IF cc.toc THEN 2 ELSE 1
        m == IF cc.max_runs < 1 THEN 1 ELSE IF cc.max_runs > 5 THEN 5 ELSE cc.max_runs
    IN  IF r <= m THEN r ELSE m

\* C31: a compile call that returns has run the compiler exactly min(r, m)
\* times, and no call runs it more than min(r, m) times
C31_PassCount ==
    /\ Len(cc.passes) <= ScheduledPasses
    /\ cc.pc = "returned" => Len(cc.passes) = ScheduledPasses

\* a call with a table of contents under LATEX_MAX_RUNS=1 has returned after one pass
C31_Witness ==
    /\ cc.pc = "returned"
    /\ cc.toc
    /\ cc.max_runs = 1
    /\ Len(cc.passes) = 1

\* the scratch directories that exist under settings.tmp_dir
ScratchDirs ==
    (IF cc.workdir = "present" THEN {cc.dir[1]} ELSE {})
    \cup {tmp.other[k] : k \in 1..Len(tmp.other)}

\* C32: no two compile calls, one after the other or side by side, are given
\* the same scratch directory, and the directory of a call no longer exists
\* once the call has returned or raised
C32_ScratchDirectory ==
    /\ \A a, b \in 1..Len(tmp.names) : a # b => tmp.names[a] # tmp.names[b]
    /\ (cc.workdir = "present" /\ tmp.other # <<>>) => cc.dir # tmp.other
    /\ cc.pc \in {"returned", "raised"}
       => /\ cc.dir # <<>>
          /\ cc.workdir = "removed"
          /\ cc.dir[1] \notin ScratchDirs

\* the caller's second call has raised beside a call of another worker that
\* is still at work: three directories were made, and the caller's is gone
C32_Witness ==
    /\ Len(tmp.names) = 3
    /\ tmp.other # <<>>
    /\ cc.pc = "raised"
    /\ cc.exc[1].type = "OSError"
    /\ cc.dir # <<>>
    /\ ScratchDirs = {tmp.other[1]}

\* C33: a normalize job never calls the rewrite service and calls the compiler
\* at most once; a failed compile is not repaired: the job goes to its except
\* block and ends with status=error; and its persist step writes the draft
\* only if the editor is active
C33_NormalizeIsDeterministic ==
    /\ [](\A j \in Jobs :
            job[j].func = "normalize_original_task"
            => /\ job[j].llm_calls = 0
               /\ job[j].compiles <= 1
               /\ job[j].pc \notin {"llm", "repair", "recompile"})
    /\ [][ \A j \in Jobs :
             /\ (At(j, "normalize_original_task", "compile") /\ job'[j] # job[j])
                => \/ job'[j].pc = "persist"
                   \/ job'[j].pc = "except" /\ files' = files
             /\ (At(j, "normalize_original_task", "except") /\ job'[j] # job[j])
                => status' = "error" /\ job'[j] = Raised
             /\ (At(j, "normalize_original_task", "persist") /\ job'[j] # job[j])
                => IF EditorIsActive
                   THEN \E v \in RowsOfKind(versions', "draft") :
                           v.tex_source = job[j].full_tex
                   ELSE versions' = versions /\ chunks_fts' = chunks_fts
         ]_vars

\* the one compile of a normalize job has failed: the job is in its except
\* block, with no rewrite call made
C33_Witness ==
    \E j \in Jobs :
        /\ At(j, "normalize_original_task", "except")
        /\ job[j].compiles = 1
        /\ job[j].llm_calls = 0
        /\ job[j].err = CompileDiagnostic

\* C34: whenever no job is executing for the document its status is not
\* processing: a job that has committed status=processing ends by committing
\* ready or error, on the liveness-discard path and the exception path too
C34_NoJobNotProcessing ==
    /\ [](NoJobRunning => status # "processing")
    /\ [][ \A j \in Jobs :
             (job[j].pc \notin {"idle", "failed", "queued"} /\ job'[j].pc \in {"idle", "failed"})
             => status' \in {"ready", "error"}
         ]_vars

\* a job has compiled and returned on the liveness-discard path: its artifact
\* is on disk without a draft row, no job is executing and the status is ready
C34_Witness ==
    /\ NoJobRunning
    /\ status = "ready"
    /\ ~EditorIsActive
    /\ DraftRows = {}
    /\ files[generated_pdf_path("draft")] # <<>>

\* C35: on a document with editor_open true the reaper and the jobs' liveness
\* check agree: a dashboard load closes the editor and discards the draft
\* exactly when the liveness predicate is false, at every heartbeat age,
\* exactly 120 seconds included
C35_ReaperAgreesWithLiveness ==
    (web = "idle" /\ editor_open)
    => ((ENABLED ReaperDiscard)
        <=> ~editor_active(editor_open, editor_heartbeat_at, now))

\* the entries of the catalogue pick_models read that carry the id mid
EntriesOf(mid) ==
    {models.ret.data[i] : i \in {k \in 1..Len(models.ret.data) : models.ret.data[k].id = mid}}

\* C36: in auto mode the candidate list never holds a model whose catalogue
\* entry has zero usable endpoints, whatever the catalogue holds, a catalogue
\* of zero-endpoint entries included
C36_NoZeroEndpointCandidate ==
    models.picked # <<>> =>
        \A k \in 1..Len(models.picked[1]) :
            \E m \in EntriesOf(models.picked[1][k]) : endpoints_count(m) > 0

\* the score of an id: the best score of its entries
BestScore(mid) == Max({score_of(m, DefaultPrefer) : m \in EntriesOf(mid)})

\* C37: for every catalogue the candidate list is in non-increasing order of
\* score, holds no id twice and has at most limit entries
C37_RankedDistinctCapped ==
    models.picked # <<>> =>
        LET chosen == models.picked[1]
        IN  /\ \A a, b \in 1..Len(chosen) :
                  a < b => BestScore(chosen[a]) >= BestScore(chosen[b])
            /\ \A a, b \in 1..Len(chosen) : a # b => chosen[a] # chosen[b]
            /\ Len(chosen) <= models.limit

\* a step that is one lookup of the catalogue
Lookup == models'.ret # models.ret

\* C38: a lookup less than 300 s after the last successful fetch returns the
\* cached entries without a request; a lookup 300 s or more after it makes a
\* request, and so does a lookup with nothing cached; a request that succeeds
\* stores what the provider answered with the time of the lookup, one that
\* fails leaves the cached entries and their timestamp as they were
C38_CatalogCache ==
    [][ Lookup =>
          LET c == models.cache
          IN  /\ (c # <<>> /\ now - c[1].at < 300)
                 => /\ models'.ret.kind = "cached"
                    /\ models'.ret.data = c[1].data
                    /\ models'.requests = models.requests
                    /\ models'.cache = c
              /\ (c = <<>> \/ now - c[1].at >= 300)
                 => /\ models'.requests = models.requests + 1
                    /\ models'.ret.kind \in {"fetched", "raised"}
              /\ models'.ret.kind = "fetched"
                 => /\ models'.ret.data = models.remote
                    /\ models'.cache = <<[at |-> now, data |-> models.remote]>>
              /\ models'.ret.kind = "raised" => models'.cache = c
      ]_vars

\* the catalogue was fetched again at 300 s; at 599 s, 299 s after that fetch
\* and after a failed request and a change at the provider, a lookup returned
\* the cached entries
C38_Witness ==
    /\ models.ret.kind = "cached"
    /\ models.ret.at = 2 * CacheTtl - 1
    /\ models.cache # <<>>
    /\ models.cache[1].at = CacheTtl
    /\ models.requests = 3
    /\ models.ret.data # models.remote

\* C39: resolving an already resolved kind against the same document state
\* returns it unchanged: the request the viewer makes after a redirect, for the
\* kind the redirect named, is answered with the page and not with a second
\* redirect
C39_ResolutionIdempotent ==
    /\ [](view # <<>>
          => effective_v(view[1].effective_v, status, SavedRows # {}, DraftRows # {})
             = view[1].effective_v)
    /\ [][ (/\ view # <<>>
            /\ view[1].response = "303"
            /\ view' # <<>>
            /\ view'[1].v = view[1].effective_v)
           => (view'[1].response = "page" /\ view'[1].effective_v = view[1].effective_v)
         ]_vars

\* a busy document without a draft row and with a saved row: the request for
\* draft, the kind a bare request is redirected to, was answered with the page
C39_Witness ==
    /\ view # <<>>
    /\ view[1].v = "draft"
    /\ view[1].response = "page"
    /\ status = "processing"
    /\ DraftRows = {}
    /\ SavedRows # {}

=============================================================================
